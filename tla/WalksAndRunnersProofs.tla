------------------------ MODULE WalksAndRunnersProofs ------------------------
(***************************************************************************)
(* What is proved of the operations that a caller repeats until a list is  *)
(* read (the search for Jira issues, the download of attachments and the   *)
(* children of a Confluence page) and of the development runners.  The     *)
(* four are independent of each other; no name of one stands for           *)
(* another's.                                                              *)
(***************************************************************************)
EXTENDS JiraSearch, AttachmentDownload, PageChildren, DevRunners, SelectionProofs

-----------------------------------------------------------------------------
(* The search for issues.                                                  *)

Answerable == {k \in DOMAIN Issues : Found(k)}
AskedFor == {k \in DOMAIN Issues : Wanted(k)}

Sites == [deployment : {"cloud", "server"}, legacy : BOOLEAN, strict : BOOLEAN]

SearchTypes ==
  /\ filter \in Filters /\ asked \in SUBSET Projects
  /\ tool \in {"search_issues", "list_project_issues"}
  /\ jql.clause \in {"none", "plain", "or"}
  /\ tool = "list_project_issues" => asked # {} /\ jql.clause = "plain"
  /\ site \in Sites
  /\ pageSize \in Nat /\ startAt \in Nat /\ pageToken \in Nat \cup {NoToken}
  /\ request \in {"idle", "enhanced", "legacy", "server"}

\* What the reader has is where it goes on, by token or by offset.
ReadingPlace ==
  /\ pageToken = NoToken => startAt = Len(seen)
  /\ pageToken # NoToken => pageToken = Len(seen) /\ startAt = 0

\* Which search is under way, and what it may be given.
UnderWay ==
  /\ site.deployment = "server" => pageToken = NoToken /\ request \in {"idle", "server"}
  /\ request = "server" => site.deployment = "server"
  /\ request = "enhanced" /\ pageToken = NoToken => startAt = 0
  /\ request = "legacy" => pageToken = NoToken
  /\ request # "idle" => ~Outside

\* What the reader has is a beginning of what the JQL finds.
Beginning ==
  /\ Len(seen) <= Len(Matching)
  /\ seen = SubSeq(Matching, 1, Len(seen))
  /\ Outside => seen = <<>>
  /\ ending = "complete" => request = "idle" /\ ~Outside /\ Len(seen) = Len(Matching)

SearchInv == SearchTypes /\ ReadingPlace /\ UnderWay /\ Beginning

\* Unless the filter and the caller's projects have nothing in common, the JQL that is
\* sent finds the issues the caller asked for, no more and no less.
LEMMA FoundIsWanted ==
  ASSUME SearchTypes
  PROVE  IF Outside THEN AskedFor = {} ELSE Answerable = AskedFor
<1>0. Issues \in Seq([project : Projects, matches : BOOLEAN])
  BY SearchAssumption
<1>1. ASSUME NEW k \in DOMAIN Issues PROVE Issues[k].project \in Projects
  <2>1. k \in 1..Len(Issues) BY <1>0
  <2>2. Issues[k] \in [project : Projects, matches : BOOLEAN] BY <1>0, <2>1, ElementOfSeq
  <2> QED BY <2>2
<1>2. CASE Outside
  BY <1>2 DEF Outside, AskedFor, Wanted
<1>3. CASE ~Outside /\ tool = "list_project_issues"
  <2>1. \A k \in DOMAIN Issues :
          InProjects(k) <=> filter = {} \/ Issues[k].project \in filter
    BY <1>3 DEF InProjects, Injected, Effective
  <2>2. \A k \in DOMAIN Issues : InClause(k) <=> Issues[k].project \in asked
    BY <1>3 DEF InClause
  <2>3. \A k \in DOMAIN Issues : Found(k) <=> Wanted(k)
    BY <1>3, <2>1, <2>2 DEF Found, Wanted, SearchTypes, Injected
  <2> QED BY <1>3, <2>3 DEF Answerable, AskedFor
<1>4. CASE ~Outside /\ tool = "search_issues"
  <2>1. \A k \in DOMAIN Issues : InProjects(k) <=>
          /\ filter = {} \/ Issues[k].project \in filter
          /\ asked = {} \/ Issues[k].project \in asked
    BY <1>4 DEF InProjects, Injected, Effective, Outside
  <2>2. \A k \in DOMAIN Issues : Found(k) <=> Wanted(k)
    BY <1>4, <2>1 DEF Found, Wanted, Injected
  <2> QED BY <1>4, <2>2 DEF Answerable, AskedFor
<1>5. QED BY <1>2, <1>3, <1>4 DEF SearchTypes

LEMMA MatchingIsSeq ==
  /\ Matching \in Seq(DOMAIN Issues)
  /\ \A S : InOrder(S) \in Seq(DOMAIN Issues)
<1>1. [k \in DOMAIN Issues |-> k] \in Seq(DOMAIN Issues) BY SearchAssumption
<1>2. QED BY <1>1, SelectFacts DEF SelectionOf, Matching, InOrder

\* The site's changes and the reader's progress leave the question alone, and with it
\* what the JQL finds.
LEMMA SameQuestion ==
  ASSUME UNCHANGED question
  PROVE  /\ Matching' = Matching
         /\ Outside' = Outside
BY DEF question, Matching, Found, InClause, InProjects,
       Injected, Effective, Outside, Recognised

\* An answer takes the reader on, from where it asked.
LEMMA PageInv ==
  ASSUME SearchInv, NEW from \in Nat, NEW token \in BOOLEAN,
         Page(from, token), from = Len(seen), request # "idle",
         token => site.deployment = "cloud"
  PROVE  SearchInv'
<1> DEFINE M == Matching
<1>1. M \in Seq(DOMAIN Issues) BY MatchingIsSeq
<1>2. PICK n \in 0..pageSize :
        /\ Len(M) - (from + n) >= 0
        /\ seen' = seen \o SubSeq(M, from + 1, from + n)
        /\ IF Len(M) - (from + n) = 0 THEN Ends("complete") ELSE Ends("page")
        /\ IF Continues(token) /\ Len(M) - (from + n) > 0
             THEN pageToken' = from + n /\ startAt' = 0
             ELSE pageToken' = NoToken /\ startAt' = Len(seen')
        /\ UNCHANGED <<site, question, pageSize>>
  BY DEF Page
<1>3. n \in Nat /\ from + n \in 0..Len(M) BY <1>1, <1>2 DEF SearchInv, SearchTypes
<1>4. seen' = SubSeq(M, 1, from + n) /\ Len(seen') = from + n
  <2>1. seen = SubSeq(M, 1, from) /\ from <= Len(M) BY DEF SearchInv, Beginning
  <2> HIDE DEF M
  <2>2. SubSeq(M, 1, from) \o SubSeq(M, from + 1, from + n) = SubSeq(M, 1, from + n)
    <3>1. /\ 1 \in 1..(Len(M) + 1) /\ from \in (1 - 1)..Len(M) /\ from + n \in from..Len(M)
      BY <1>1, <1>3, <2>1
    <3> QED BY <1>1, <3>1, ConcatAdjacentSubSeq
  <2>3. Len(SubSeq(M, 1, from + n)) = from + n BY <1>1, <1>3
  <2> QED BY <1>2, <2>1, <2>2, <2>3
<1>5. M' = M /\ Outside' = Outside /\ ~Outside
  BY <1>2, SameQuestion DEF SearchInv, UnderWay
<1>6. request' = "idle" /\ ending' \in {"complete", "page"} BY <1>2 DEF Ends
<1>7. SearchTypes'
  BY <1>2, <1>3, <1>4, <1>6 DEF SearchInv, SearchTypes, question, NoToken
<1>8. ReadingPlace' BY <1>2, <1>3, <1>4 DEF ReadingPlace, NoToken
<1>9. UnderWay'
  BY <1>2, <1>6 DEF UnderWay, SearchInv, SearchTypes, Continues
<1>10. Beginning'
  <2>1. ending' = "complete" => Len(seen') = Len(M)
    BY <1>1, <1>2, <1>3, <1>4 DEF Ends
  <2> QED BY <1>3, <1>4, <1>5, <1>6, <2>1 DEF Beginning
<1>11. QED BY <1>7, <1>8, <1>9, <1>10 DEF SearchInv

\* A call that is refused here, or a request that is answered with no issues, leaves the
\* reader where it was.
LEMMA NoPageInv ==
  ASSUME SearchInv, UNCHANGED <<question, seen, startAt, pageToken>>,
         pageSize' \in Nat, site' \in Sites, site'.deployment = site.deployment,
         request' = "server" => site.deployment = "server",
         request' \in {"idle", "enhanced", "legacy", "server"},
         request' # "idle" => ~Outside,
         request' = "enhanced" /\ pageToken = NoToken => startAt = 0,
         request' = "legacy" => pageToken = NoToken,
         site.deployment = "server" => request' \in {"idle", "server"},
         ending' = "complete" => ending = "complete" /\ request' = "idle"
  PROVE  SearchInv'
<1>1. Matching' = Matching /\ Outside' = Outside BY SameQuestion
<1>2. UNCHANGED <<filter, tool, jql, asked>> BY DEF question
<1>3. SearchTypes' BY <1>2 DEF SearchInv, SearchTypes, NoToken
<1>4. ReadingPlace' BY DEF SearchInv, ReadingPlace, NoToken
<1>5. UnderWay' BY <1>1 DEF SearchInv, UnderWay, NoToken
<1>6. Beginning' BY <1>1 DEF SearchInv, Beginning
<1> QED BY <1>3, <1>4, <1>5, <1>6 DEF SearchInv

LEMMA SearchStarts == SearchInit => SearchInv
<1> SUFFICES ASSUME SearchInit PROVE SearchInv OBVIOUS
<1>1. Matching \in Seq(DOMAIN Issues) BY MatchingIsSeq
<1>2. SearchTypes
  <2>1. site \in Sites
    <3>1. CASE site \in [deployment : {"cloud"}, legacy : BOOLEAN, strict : BOOLEAN]
      BY <3>1 DEF Sites
    <3>2. CASE site = [deployment |-> "server", legacy |-> FALSE, strict |-> FALSE]
      BY <3>2, Zenon DEF Sites
    <3> QED BY <3>1, <3>2 DEF SearchInit
  <2>2. asked \in SUBSET Projects /\ (tool = "list_project_issues" => asked # {})
    BY DEF SearchInit
  <2>3. /\ jql.clause \in {"none", "plain", "or"}
        /\ tool = "list_project_issues" => jql.clause = "plain"
    BY DEF SearchInit, JQLs
  <2>4. pageSize \in Nat BY SearchAssumption DEF SearchInit
  <2>5. /\ filter \in Filters /\ tool \in {"search_issues", "list_project_issues"}
        /\ startAt = 0 /\ pageToken = NoToken /\ request = "idle"
    BY DEF SearchInit
  <2> QED BY <2>1, <2>2, <2>3, <2>4, <2>5 DEF SearchTypes
<1>3. ReadingPlace /\ UnderWay BY DEF SearchInit, ReadingPlace, UnderWay, NoToken
<1>4. Beginning BY <1>1 DEF SearchInit, Beginning
<1> QED BY <1>2, <1>3, <1>4 DEF SearchInv

LEMMA SearchStep ==
  ASSUME SearchInv, [SearchNext]_(searchVars)
  PROVE  SearchInv'
<1> USE DEF SearchInv
<1>1. CASE CallSearch
  <2>1. /\ UNCHANGED <<site, question, seen, startAt, pageToken>>
        /\ pageSize' \in Nat /\ site' \in Sites
    BY <1>1, SearchAssumption DEF CallSearch, SearchTypes
  <2>2. CASE Outside
    BY <1>1, <2>1, <2>2, NoPageInv DEF CallSearch, Ends
  <2>3. CASE ~Outside
    <3>1. request' = Search /\ ending' = "none" BY <1>1, <2>3 DEF CallSearch
    <3>2. CASE site.deployment = "server"
      BY <2>1, <2>3, <3>1, <3>2, NoPageInv DEF Search
    <3>3. CASE site.deployment = "cloud"
      <4>1. request' = IF startAt > 0 /\ pageToken = NoToken THEN "legacy" ELSE "enhanced"
        BY <3>1, <3>3 DEF Search
      <4>2. startAt \in Nat BY DEF SearchTypes
      <4> QED BY <2>1, <2>3, <3>1, <3>3, <4>1, <4>2, NoPageInv
    <3> QED BY <3>2, <3>3 DEF SearchTypes, Sites
  <2> QED BY <2>2, <2>3
<1>2. CASE Enhanced
  <2>1. request = "enhanced" /\ site.deployment = "cloud"
    BY <1>2 DEF Enhanced, UnderWay, SearchTypes, Sites
  <2>2. CASE Unbounded /\ FallsBack
    <3>1. /\ request' = "legacy" /\ ending' = ending /\ pageToken = NoToken
          /\ UNCHANGED <<site, question, seen, startAt, pageToken, pageSize>>
      BY <1>2, <2>2 DEF Enhanced, FallsBack
    <3>2. pageSize' \in Nat /\ site' \in Sites /\ ~Outside /\ ending # "complete"
      BY <2>1, <3>1 DEF SearchTypes, UnderWay, Beginning
    <3> QED BY <2>1, <3>1, <3>2, NoPageInv
  <2>3. CASE Unbounded /\ ~FallsBack
    BY <1>2, <2>1, <2>3, NoPageInv DEF Enhanced, Ends, SearchTypes
  <2>4. CASE ~Unbounded
    <3> DEFINE from == IF pageToken = NoToken THEN 0 ELSE pageToken
    <3>1. Page(from, TRUE) BY <1>2, <2>4 DEF Enhanced
    <3>2. from \in Nat /\ from = Len(seen)
      BY <2>1 DEF SearchTypes, ReadingPlace, UnderWay, NoToken
    <3> HIDE DEF from
    <3> QED BY <2>1, <3>1, <3>2, PageInv
  <2> QED BY <2>2, <2>3, <2>4
<1>3. CASE Legacy
  <2>1. request = "legacy" /\ pageToken = NoToken BY <1>3 DEF Legacy, UnderWay
  <2>2. CASE site.legacy
    <3>1. Page(startAt, FALSE) BY <1>3, <2>2 DEF Legacy, Offset
    <3>2. startAt \in Nat /\ startAt = Len(seen) BY <2>1 DEF SearchTypes, ReadingPlace
    <3> QED BY <2>1, <3>1, <3>2, PageInv
  <2>3. CASE ~site.legacy
    BY <1>3, <2>1, <2>3, NoPageInv DEF Legacy, Ends, Advice, SearchTypes
  <2> QED BY <2>2, <2>3
<1>4. CASE Server
  <2>1. request = "server" /\ Page(startAt, FALSE) BY <1>4 DEF Server, Offset
  <2>2. startAt \in Nat /\ startAt = Len(seen) BY <2>1 DEF SearchTypes, ReadingPlace, UnderWay
  <2> QED BY <2>1, <2>2, PageInv
<1>5. CASE Malformed
  BY <1>5, NoPageInv DEF Malformed, Ends, SearchTypes
<1>6. CASE RequestFails
  BY <1>6, NoPageInv DEF RequestFails, Ends, SearchTypes
<1>7. CASE LosesLegacy \/ BecomesStrict
  <2>1. /\ site' \in Sites /\ site'.deployment = site.deployment
        /\ UNCHANGED <<question, seen, startAt, pageToken, request, pageSize, ending>>
    BY <1>7 DEF LosesLegacy, BecomesStrict, SearchTypes, Sites
  <2> QED BY <2>1, NoPageInv DEF SearchTypes, UnderWay, Beginning
<1>8. CASE UNCHANGED searchVars
  <2>1. UNCHANGED <<site, question, seen, startAt, pageToken, request, pageSize, ending>>
    BY <1>8 DEF searchVars, question
  <2> QED BY <2>1, NoPageInv DEF SearchTypes, UnderWay, Beginning
<1> QED
  BY <1>1, <1>2, <1>3, <1>4, <1>5, <1>6, <1>7, <1>8 DEF SearchNext

\* What the reader has is always a beginning of what it asked for, and the whole of it
\* when it is told that no page follows.
LEMMA SearchExact == ASSUME SearchInv PROVE WalkExact
<1> DEFINE W == InOrder({k \in DOMAIN Issues : Wanted(k)})
<1>1. Matching \in Seq(DOMAIN Issues) /\ W \in Seq(DOMAIN Issues) BY MatchingIsSeq
<1>2. IsPrefix(seen, W) /\ (ending = "complete" => seen = W)
  <2>1. CASE ~Outside
    <3>1. W = Matching
      BY <2>1, FoundIsWanted DEF SearchInv, Matching, Answerable, AskedFor
    <3>2. /\ Len(seen) <= Len(W) /\ seen = SubSeq(W, 1, Len(seen))
          /\ ending = "complete" => Len(seen) = Len(W)
      BY <3>1 DEF SearchInv, Beginning
    <3> HIDE DEF W
    <3>3. Len(seen) \in Nat BY <3>1, <3>2, <1>1
    <3> QED BY <1>1, <3>2, <3>3 DEF IsPrefix
  <2>2. CASE Outside
    <3>1. seen = <<>> /\ ending # "complete" BY <2>2 DEF SearchInv, Beginning
    <3> QED BY <1>1, <3>1 DEF IsPrefix
  <2> QED BY <2>1, <2>2
<1> QED BY <1>2 DEF WalkExact

\* search_issues and list_project_issues, for every site, filter, project and page size:
\* a reader that follows the answers gets the issues it asked for, each once and in
\* order, whichever searches answer, and all of them when no page follows.
THEOREM SearchWalk == SearchSpec => []WalkExact
<1>1. SearchInit => SearchInv BY SearchStarts
<1>2. SearchInv /\ [SearchNext]_(searchVars) => SearchInv' BY SearchStep
<1>3. SearchInv => WalkExact BY SearchExact
<1> QED BY <1>1, <1>2, <1>3, PTL DEF SearchSpec

-----------------------------------------------------------------------------
(* The download of attachments.                                            *)

AtFirst == {Initially[i] : i \in 1..Len(Initially)}
There == {attached[i] : i \in 1..Len(attached)}
InPage == {response.results[i] : i \in 1..Len(response.results)}
Gone == ever \ There

\* The attachments listed behind a place.
After(n) == {attached[i] : i \in (n + 1)..Len(attached)}

\* The place up to which the call has accounted for the attachments, if there is one.
Reached ==
  IF stage \in {"list", "asked"} THEN start
  ELSE IF stage = "download" THEN response.next
  ELSE IF report.status = "ok" THEN report.next_start ELSE NoStart

\* The server said that there is no more.
ListEnded ==
  \/ stage = "download" /\ ~response.more
  \/ stage = "done" /\ report.status = "ok" /\ ~report.has_more

Responses == [results : Seq(Attachments), empty : BOOLEAN, more : BOOLEAN,
              next : Nat \cup {NoStart}]
OkReports == [status : {"ok"}, has_more : BOOLEAN, next_start : Nat \cup {NoStart},
              limit_applied : BOOLEAN]

DownloadTypes ==
  /\ links \subseteq {"advance", "cursor", "back"} /\ filtered \in BOOLEAN
  /\ limit \in DownloadLimits /\ start \in Nat /\ pagesFetched \in Nat
  /\ stage \in {"list", "asked", "download", "done"}
  /\ response \in Responses
  /\ downloaded \in Seq(Attachments) /\ failed \in Seq(Attachments)
  /\ report \in OkReports \cup {NoReport, [status |-> "error"]}
  /\ stage # "done" => report = NoReport

\* What the server holds was attached at some time, and each attachment once.
OnServer ==
  /\ attached \in Seq(Attachments)
  /\ \A i, j \in 1..Len(attached) : attached[i] = attached[j] => i = j
  /\ ever \subseteq Attachments /\ IsFiniteSet(ever)
  /\ There \subseteq ever /\ AtFirst \subseteq ever
  /\ Covered \cup InPage \subseteq ever

\* What is listed and not yet downloaded is of use, and no more than the limit leaves.
InHand ==
  /\ stage # "download" => response.results = <<>>
  /\ stage = "asked" => ~LimitReached
  /\ limit # NoLimit => Processed + Len(response.results) <= limit
  /\ stage = "download" /\ ~filtered /\ response.empty => ~response.more

\* Nothing is dealt with twice: neither is what is listed behind the place reached.
Once ==
  /\ Cardinality(Covered) = Processed
  /\ InPage \cap Covered = {}
  /\ \A i, j \in 1..Len(response.results) : response.results[i] = response.results[j] => i = j
  /\ stage # "done" /\ Reached # NoStart => After(Reached) \cap (Covered \cup InPage) = {}

\* What was there from the start and still is, and neither accounted for nor ahead.
Owed(ahead) == (AtFirst \cap There) \ (Covered \cup InPage \cup ahead)

\* Without a filter no more is owed than is gone.
FewOwed ==
  ~filtered =>
    /\ Reached # NoStart => Cardinality(Owed(After(Reached))) <= Cardinality(Gone)
    /\ ListEnded => Cardinality(Owed({})) <= Cardinality(Gone)

\* While nothing of what was there from the start is gone, it keeps its places, and all
\* of it up to the place reached is accounted for.
InPlace ==
  AtFirst \subseteq There =>
    /\ Len(Initially) <= Len(attached)
    /\ \A i \in 1..Len(Initially) : attached[i] = Initially[i]
    /\ Reached # NoStart =>
         \A i \in 1..Len(Initially) :
           i <= Reached /\ Kept(Initially[i]) => Initially[i] \in Covered \cup InPage

DownloadInv ==
  DownloadTypes /\ OnServer /\ InHand /\ (Forward => Once /\ FewOwed /\ InPlace)

\* What the definitions above say in terms of positions and of sets.
LEMMA DownloadFacts ==
  ASSUME DownloadTypes, OnServer
  PROVE  /\ Len(attached) \in Nat /\ Len(Initially) \in Nat /\ Len(response.results) \in Nat
         /\ \A i \in 1..Len(attached) : attached[i] \in Attachments
         /\ \A i \in 1..Len(Initially) : Initially[i] \in Attachments
         /\ response.results \in Seq(Attachments) /\ response.next \in Nat \cup {NoStart}
         /\ IsFiniteSet(Covered) /\ IsFiniteSet(AtFirst) /\ IsFiniteSet(Gone)
         /\ Processed \in Nat
         /\ report.status = "ok" =>
              report.next_start \in Nat \cup {NoStart} /\ report.has_more \in BOOLEAN
<1>1. attached \in Seq(Attachments) /\ Initially \in Seq(Attachments)
  BY InitiallyAssumption DEF OnServer
<1>2. response.results \in Seq(Attachments) /\ response.next \in Nat \cup {NoStart}
  BY DEF DownloadTypes, Responses
<1>3. IsFiniteSet(Covered) /\ IsFiniteSet(AtFirst) /\ IsFiniteSet(Gone)
  <2>1. Covered \subseteq ever /\ AtFirst \subseteq ever /\ IsFiniteSet(ever) BY DEF OnServer
  <2> QED BY <2>1, FS_Subset DEF Gone
<1>4. Processed \in Nat BY DEF DownloadTypes, Processed
<1>5. report.status = "ok" =>
        report.next_start \in Nat \cup {NoStart} /\ report.has_more \in BOOLEAN
  BY DEF DownloadTypes, OkReports, NoReport
<1> QED BY <1>1, <1>2, <1>3, <1>4, <1>5, ElementOfSeq

LEMMA DownloadStarts == DownloadInit => DownloadInv
<1> SUFFICES ASSUME DownloadInit PROVE DownloadInv OBVIOUS
<1> USE DEF DownloadInit, NoResponse, NoReport
<1>1. Initially \in Seq(Attachments) /\ IsInjective(Initially) BY InitiallyAssumption
<1>2. DownloadTypes
  <2>1. response \in Responses
    <3>1. <<>> \in Seq(Attachments) OBVIOUS
    <3> QED BY <3>1 DEF Responses
  <2>2. limit \in DownloadLimits /\ links \subseteq {"advance", "cursor", "back"}
    BY LinksAssumption
  <2> QED BY <2>1, <2>2 DEF DownloadTypes
<1>3. InPage = {} /\ Covered = {} BY DEF InPage, Covered, ToSet
<1>4. AtFirst = There /\ AtFirst = ever BY <1>1 DEF AtFirst, There, ToSet
<1>5. OnServer
  <2>1. \A i, j \in 1..Len(attached) : attached[i] = attached[j] => i = j
    BY <1>1 DEF IsInjective
  <2>2. ever \subseteq Attachments BY <1>1, <1>4, ElementOfSeq DEF AtFirst
  <2>3. IsFiniteSet(ever) BY <1>1, <1>4, ElementsFacts DEF AtFirst
  <2> QED BY <1>1, <1>3, <1>4, <2>1, <2>2, <2>3 DEF OnServer
<1>6. InHand
  <2>1. limit # NoLimit => limit \in Nat BY LimitAssumption
  <2> QED BY <2>1 DEF InHand, Processed
<1>7. Once /\ FewOwed /\ InPlace
  <2>1. Once BY <1>3, FS_EmptySet DEF Once, Processed
  <2>2. FewOwed
    <3>1. Reached = 0 /\ ~ListEnded BY DEF Reached, ListEnded
    <3>2. After(0) = There BY <1>1 DEF After, There
    <3>3. Owed(There) = {} BY DEF Owed
    <3>4. IsFiniteSet(Gone) BY <1>5, FS_Subset DEF OnServer, Gone
    <3>5. Cardinality(Gone) \in Nat BY <3>4, FS_CardinalityType
    <3>6. Cardinality(Owed(There)) = 0 BY <3>3, FS_EmptySet
    <3> QED BY <3>1, <3>2, <3>5, <3>6 DEF FewOwed
  <2>3. InPlace
    <3>1. Reached = 0 BY DEF Reached
    <3> QED BY <1>1, <3>1 DEF InPlace
  <2> QED BY <2>1, <2>2, <2>3
<1> QED BY <1>2, <1>5, <1>6, <1>7 DEF DownloadInv

\* The next page is asked for at the end of this one, or nowhere.
LEMMA ForwardLinks ==
  ASSUME DownloadTypes, NEW end, NEW next \in NextStarts(end), Forward
  PROVE  next \in {end, NoStart}
BY DEF Forward, NextStarts

\* A list page: its end, what the filter keeps of it, and the link below it.
LEMMA ListedFacts ==
  ASSUME DownloadInv, Listed
  PROVE  \E end \in 0..Len(attached), next \in Nat \cup {NoStart} :
           /\ next \in NextStarts(end)
           /\ end = Smaller(start + FetchLimit, Len(attached))
           /\ response'.next = next /\ response'.more = (end < Len(attached))
           /\ response'.empty = (response'.results = <<>>)
           /\ response' \in Responses
           /\ FetchLimit \in Nat \ {0} /\ (limit # NoLimit => Processed + FetchLimit <= limit)
           /\ Len(response'.results) <= FetchLimit
           /\ InPage' = {attached[i] : i \in {j \in (start + 1)..end : Kept(attached[j])}}
           /\ \A i, j \in 1..Len(response'.results) :
                response'.results[i] = response'.results[j] => i = j
<1>0. /\ start \in Nat /\ attached \in Seq(Attachments) /\ Len(attached) \in Nat /\ Processed \in Nat
      /\ \A i, j \in 1..Len(attached) : attached[i] = attached[j] => i = j
      /\ \A i \in 1..Len(attached) : attached[i] \in Attachments
  BY ElementOfSeq DEF DownloadInv, DownloadTypes, OnServer, Processed
<1> DEFINE K == {a \in Attachments : Kept(a)}
           end == Smaller(start + FetchLimit, Len(attached))
           page == SubSeq(attached, start + 1, end)
           results == Select(page, K)
<1>1. PICK next \in NextStarts(end) :
        response' = [results |-> results, empty |-> results = <<>>,
                     more |-> end < Len(attached), next |-> next]
  BY DEF Listed
<1>2. FetchLimit \in Nat \ {0} /\ (limit # NoLimit => Processed + FetchLimit <= limit)
  <2>1. limit # NoLimit => limit \in Nat /\ Processed < limit
    BY <1>0, LimitAssumption DEF Listed, DownloadInv, DownloadTypes, InHand, LimitReached
  <2>2. ListLimit \in Nat \ {0} BY LimitAssumption
  <2>3. CASE limit = NoLimit BY <2>2, <2>3 DEF FetchLimit
  <2>4. CASE limit # NoLimit
    BY <1>0, <2>1, <2>2, <2>4 DEF FetchLimit, Smaller
  <2> QED BY <2>3, <2>4
<1>3. end \in 0..Len(attached) /\ end <= start + FetchLimit BY <1>0, <1>2 DEF Smaller
<1>4. next \in Nat \cup {NoStart}
  <2> HIDE DEF end
  <2> QED BY <1>0, <1>1, <1>3 DEF NextStarts
<1>5. /\ page \in Seq(Attachments)
      /\ Len(page) = IF start <= end THEN end - start ELSE 0
      /\ \A i \in 1..(end - start) : page[i] = attached[start + i]
  <2> HIDE DEF end
  <2> QED BY <1>0, <1>3, RunFacts
<1>6. SelectionOf(Attachments, K, page, results)
  <2> HIDE DEF page, K
  <2> QED BY <1>5, SelectFacts
<1>7. response' \in Responses
  <2>1. (results = <<>>) \in BOOLEAN /\ (end < Len(attached)) \in BOOLEAN OBVIOUS
  <2>2. results \in Seq(Attachments) BY <1>6 DEF SelectionOf
  <2> HIDE DEF results, end
  <2> QED BY <1>1, <1>4, <2>1, <2>2 DEF Responses
<1>8. /\ response'.results = results /\ response'.next = next
      /\ response'.more = (end < Len(attached)) /\ response'.empty = (results = <<>>)
  <2> HIDE DEF results, end
  <2> QED BY <1>1
<1>9. InPage' = {attached[i] : i \in {j \in (start + 1)..end : Kept(attached[j])}}
  <2>1. ASSUME NEW j \in 1..Len(results)
        PROVE  \E i \in (start + 1)..end : Kept(attached[i]) /\ results[j] = attached[i]
    <3>1. PICK i \in 1..Len(page) : page[i] = results[j] BY <1>6 DEF SelectionOf
    <3>2. results[j] \in K BY <1>6 DEF SelectionOf
    <3> HIDE DEF results, page, end
    <3>3. i \in 1..(end - start) /\ start + i \in (start + 1)..end BY <1>0, <1>3, <1>5, <3>1
    <3>4. attached[start + i] = results[j] BY <1>5, <3>1, <3>3
    <3> QED BY <3>2, <3>3, <3>4
  <2>2. ASSUME NEW i \in (start + 1)..end, Kept(attached[i])
        PROVE  \E j \in 1..Len(results) : results[j] = attached[i]
    <3> HIDE DEF end, results
    <3>1. i - start \in 1..(end - start) /\ i \in 1..Len(attached) /\ start + (i - start) = i
      BY <1>0, <1>3
    <3>2. page[i - start] = attached[i] /\ i - start \in 1..Len(page)
      <4> HIDE DEF page
      <4> QED BY <1>0, <1>3, <1>5, <3>1
    <3>3. attached[i] \in K BY <1>0, <2>2, <3>1
    <3> HIDE DEF page, results, K
    <3> QED BY <1>6, <3>2, <3>3 DEF SelectionOf
  <2>3. InPage' = {results[j] : j \in 1..Len(results)}
    <3> HIDE DEF results
    <3> QED BY <1>8 DEF InPage
  <2> HIDE DEF results, page, end, K
  <2> QED BY <2>1, <2>2, <2>3
<1>10. \A i, j \in 1..Len(results) : results[i] = results[j] => i = j
  <2>1. \A i, j \in 1..Len(page) : page[i] = page[j] => i = j
    <3> SUFFICES ASSUME NEW i \in 1..Len(page), NEW j \in 1..Len(page), page[i] = page[j]
                 PROVE  i = j
      OBVIOUS
    <3> HIDE DEF page, end
    <3>1. i \in 1..(end - start) /\ j \in 1..(end - start) BY <1>0, <1>3, <1>5
    <3>2. attached[start + i] = attached[start + j] BY <1>5, <3>1
    <3>3. start + i \in 1..Len(attached) /\ start + j \in 1..Len(attached)
      BY <1>0, <1>3, <3>1
    <3>4. start + i = start + j BY <1>0, <3>2, <3>3
    <3> QED BY <1>0, <3>1, <3>4
  <2> HIDE DEF page, results, K
  <2> QED BY <1>6, <2>1 DEF SelectionOf
<1>11. Len(results) <= FetchLimit
  <2>1. Len(results) <= Len(page) /\ results \in Seq(Attachments) BY <1>6 DEF SelectionOf
  <2> HIDE DEF results, page, end
  <2>2. Len(results) \in Nat BY <2>1
  <2> QED BY <1>0, <1>2, <1>3, <1>5, <2>1, <2>2
<1> HIDE DEF results, page, end, K
<1> QED BY <1>1, <1>2, <1>3, <1>4, <1>7, <1>8, <1>9, <1>10, <1>11 DEF end

LEMMA DownloadTypesStep ==
  ASSUME DownloadInv, [DownloadNext]_downloadVars
  PROVE  DownloadTypes'
<1>0. /\ start \in Nat /\ attached \in Seq(Attachments) /\ Len(attached) \in Nat /\ Processed \in Nat
      /\ downloaded \in Seq(Attachments) /\ failed \in Seq(Attachments) /\ pagesFetched \in Nat
      /\ response.results \in Seq(Attachments) /\ response.next \in Nat \cup {NoStart}
  BY DEF DownloadInv, DownloadTypes, OnServer, Processed, Responses
<1> USE DEF othersVars, callVars
<1>1. CASE Ask
  <2>1. report' \in OkReports \cup {NoReport}
    <3>1. CASE LimitReached
      <4>1. report' = [status |-> "ok", has_more |-> TRUE, next_start |-> start,
                       limit_applied |-> TRUE]
        BY <1>1, <3>1 DEF Ask, Finish
      <4> QED BY <1>0, <4>1 DEF OkReports
    <3>2. CASE ~LimitReached
      BY <1>1, <3>2 DEF Ask, DownloadInv, DownloadTypes
    <3> QED BY <3>1, <3>2
  <2>2. stage' \in {"done", "asked"} BY <1>1 DEF Ask, Finish
  <2>3. UNCHANGED <<links, filtered, limit, start, response, pagesFetched, downloaded, failed>>
    BY <1>1 DEF Ask
  <2>4. stage' # "done" => report' = NoReport BY <1>1 DEF Ask, Finish, DownloadInv, DownloadTypes
  <2> QED BY <2>1, <2>2, <2>3, <2>4 DEF DownloadInv, DownloadTypes
<1>2. CASE Listed
  <2>5. response' \in Responses BY <1>2, ListedFacts
  <2>6. pagesFetched' = pagesFetched + 1 /\ stage' = "download" /\ report = NoReport
    BY <1>0, <1>2 DEF Listed, DownloadInv, DownloadTypes
  <2>7. UNCHANGED <<othersVars, filtered, limit, start, downloaded, failed, report>>
    BY <1>2 DEF Listed
  <2> QED BY <1>0, <2>5, <2>6, <2>7 DEF DownloadInv, DownloadTypes
<1>3. CASE ListFailed
  BY <1>3 DEF ListFailed, DownloadInv, DownloadTypes
<1>4. CASE Download
  <2>1. response.results \in Seq(Attachments) /\ response.results # <<>>
    BY <1>0, <1>4 DEF Download
  <2>2. Head(response.results) \in Attachments /\ Tail(response.results) \in Seq(Attachments)
    BY <2>1
  <2>3. response' \in Responses
    <3>1. response' = [response EXCEPT !.results = Tail(@)] BY <1>4 DEF Download
    <3> QED BY <3>1, <2>2 DEF Responses, DownloadInv, DownloadTypes
  <2>4. downloaded' \in Seq(Attachments) /\ failed' \in Seq(Attachments)
    <3> DEFINE a == Head(response.results)
    <3>1. Append(downloaded, a) \in Seq(Attachments) /\ Append(failed, a) \in Seq(Attachments)
      BY <1>0, <2>2
    <3>2. downloaded' \in {downloaded, Append(downloaded, a)} /\ failed' \in {failed, Append(failed, a)}
      BY <1>4 DEF Download
    <3> QED BY <1>0, <3>1, <3>2
  <2>5. UNCHANGED <<othersVars, filtered, limit, stage, start, pagesFetched, report>>
    BY <1>4 DEF Download
  <2> QED BY <2>3, <2>4, <2>5 DEF DownloadInv, DownloadTypes
<1>5. CASE PageDone
  <2>1. response.next \in Nat \cup {NoStart} /\ (stage # "done" => report = NoReport)
    BY <1>0 DEF DownloadInv, DownloadTypes
  <2>2. UNCHANGED <<othersVars, filtered, limit, response, pagesFetched, downloaded, failed>>
    BY <1>5 DEF PageDone
  <2>3. CASE GoesOn
    <3>1. stage' = "list" /\ start' = response.next /\ report' = report
      BY <1>5, <2>3 DEF PageDone, NextStart
    <3>2. start' \in Nat /\ report = NoReport
      BY <1>5, <2>1, <2>3, <3>1 DEF GoesOn, PageDone
    <3> QED BY <2>2, <3>1, <3>2 DEF DownloadInv, DownloadTypes
  <2>4. CASE ~GoesOn
    <3> DEFINE applied == /\ ~LastPage
                          /\ LimitReached \/ pagesFetched >= MaxPages \/ response.next # NoStart
    <3>1. /\ stage' = "done" /\ start' = start
          /\ report' = [status |-> "ok", has_more |-> ~LastPage,
                        next_start |-> IF LastPage THEN NoStart ELSE response.next,
                        limit_applied |-> applied]
      BY <1>5, <2>4 DEF PageDone, Finish
    <3>2. applied \in BOOLEAN OBVIOUS
    <3> HIDE DEF applied
    <3>3. report' \in OkReports BY <2>1, <3>1, <3>2, Zenon DEF OkReports
    <3> QED BY <2>2, <3>1, <3>3 DEF DownloadInv, DownloadTypes
  <2> QED BY <2>3, <2>4
<1>6. CASE Attach \/ Detach
  <2>1. UNCHANGED <<links, callVars>> BY <1>6 DEF Attach, Detach
  <2> QED BY <2>1 DEF DownloadInv, DownloadTypes
<1>7. CASE UNCHANGED downloadVars
  BY <1>7 DEF downloadVars, DownloadInv, DownloadTypes
<1> QED BY <1>1, <1>2, <1>3, <1>4, <1>5, <1>6, <1>7 DEF DownloadNext, DownloadCall

\* While the server's list stays as it is, an action that hands on what is in hand owes
\* no more than before.
LEMMA HandedOn ==
  ASSUME DownloadInv, Forward, UNCHANGED <<attached, ever, filtered>>,
         Covered' \cup InPage' = Covered \cup InPage,
         Reached' \in {Reached, NoStart},
         ListEnded' => ListEnded \/ filtered
  PROVE  FewOwed' /\ InPlace'
<1>1. There' = There /\ Gone' = Gone /\ \A S : Owed(S)' = Owed(S)
  BY DEF There, Gone, Owed
<1>2. \A n : After(n)' = After(n) BY DEF After
<1>3. FewOwed /\ InPlace BY DEF DownloadInv
<1>4. FewOwed'
  <2>1. CASE Reached' = Reached BY <1>1, <1>2, <1>3, <2>1 DEF FewOwed
  <2>2. CASE Reached' = NoStart BY <1>1, <1>2, <1>3, <2>2 DEF FewOwed
  <2> QED BY <2>1, <2>2
<1>5. InPlace' BY <1>1, <1>3 DEF InPlace, Kept
<1> QED BY <1>4, <1>5

\* What a download leaves in the list page.
LEMMA DownloadedFacts ==
  ASSUME DownloadInv, Download
  PROVE  /\ Len(response'.results) = Len(response.results) - 1
         /\ response'.next = response.next /\ response'.more = response.more
         /\ response'.empty = response.empty
         /\ Processed' = Processed + 1
         /\ \E a \in InPage :
              /\ a = response.results[1]
              /\ Covered' = Covered \cup {a}
              /\ InPage = InPage' \cup {a}
              /\ a \in InPage' => \E i \in 2..Len(response.results) : response.results[i] = a
         /\ \A i \in 1..Len(response'.results) :
              response'.results[i] = response.results[i + 1]
<1> DEFINE r == response.results
           a == Head(r)
<1>1. response \in Responses /\ r \in Seq(Attachments) /\ r # <<>>
      /\ downloaded \in Seq(Attachments) /\ failed \in Seq(Attachments)
  BY DEF Download, DownloadInv, DownloadTypes, Responses
<1>2. response' = [response EXCEPT !.results = Tail(r)] BY DEF Download
<1>3. response'.results = Tail(r) /\ response'.next = response.next
      /\ response'.more = response.more /\ response'.empty = response.empty
  BY <1>1, <1>2 DEF Responses
<1>4. /\ Len(Tail(r)) = Len(r) - 1 /\ \A i \in 1..Len(Tail(r)) : Tail(r)[i] = r[i + 1]
      /\ a = r[1] /\ 1 \in 1..Len(r) /\ a \in Attachments /\ Len(r) \in Nat
  BY <1>1
<1>5. \/ downloaded' = Append(downloaded, a) /\ failed' = failed
      \/ failed' = Append(failed, a) /\ downloaded' = downloaded
  BY DEF Download
<1>6. ASSUME NEW s \in Seq(Attachments)
      PROVE  Len(Append(s, a)) = Len(s) + 1 /\ ToSet(Append(s, a)) = ToSet(s) \cup {a}
  <2> HIDE DEF a
  <2>1. /\ Append(s, a) \in Seq(Attachments) /\ Len(Append(s, a)) = Len(s) + 1
        /\ Append(s, a)[Len(s) + 1] = a /\ \A i \in 1..Len(s) : Append(s, a)[i] = s[i]
        /\ Len(s) \in Nat
    BY <1>4
  <2>2. ToSet(s) = {s[i] : i \in 1..Len(s)} BY DEF ToSet
  <2>3. ToSet(Append(s, a)) = {Append(s, a)[i] : i \in 1..(Len(s) + 1)} BY <2>1 DEF ToSet
  <2> QED BY <2>1, <2>2, <2>3
<1>7. Processed' = Processed + 1 /\ Covered' = Covered \cup {a}
  <2> HIDE DEF a
  <2>1. Len(downloaded) \in Nat /\ Len(failed) \in Nat BY <1>1
  <2>2. /\ Len(Append(downloaded, a)) = Len(downloaded) + 1
        /\ Len(Append(failed, a)) = Len(failed) + 1
        /\ ToSet(Append(downloaded, a)) = ToSet(downloaded) \cup {a}
        /\ ToSet(Append(failed, a)) = ToSet(failed) \cup {a}
    BY <1>1, <1>6, Zenon
  <2>3. CASE downloaded' = Append(downloaded, a) /\ failed' = failed
    BY <2>1, <2>2, <2>3 DEF Processed, Covered
  <2>4. CASE failed' = Append(failed, a) /\ downloaded' = downloaded
    BY <2>1, <2>2, <2>4 DEF Processed, Covered
  <2> QED BY <1>5, <2>3, <2>4
<1>8. InPage = InPage' \cup {a} /\ a \in InPage
      /\ (a \in InPage' => \E i \in 2..Len(r) : r[i] = a)
  <2> DEFINE t == Tail(r)
  <2>1. InPage = {r[i] : i \in 1..Len(r)} /\ InPage' = {t[i] : i \in 1..Len(t)}
    BY <1>3 DEF InPage
  <2> HIDE DEF t, a, r
  <2>2. /\ Len(t) = Len(r) - 1 /\ \A i \in 1..Len(t) : t[i] = r[i + 1]
        /\ a = r[1] /\ 1 \in 1..Len(r) /\ Len(r) \in Nat
    BY <1>4 DEF t
  <2>3. \A i \in 1..Len(t) : i + 1 \in 2..Len(r) /\ i + 1 \in 1..Len(r) BY <2>2
  <2>4. \A i \in 1..Len(r) : i = 1 \/ (i - 1 \in 1..Len(t) /\ t[i - 1] = r[i]) BY <2>2
  <2>5. InPage \subseteq InPage' \cup {a} BY <2>1, <2>2, <2>4
  <2>6. InPage' \subseteq InPage BY <2>1, <2>2, <2>3
  <2>7. a \in InPage BY <2>1, <2>2
  <2>8. a \in InPage' => \E i \in 2..Len(r) : r[i] = a BY <2>1, <2>2, <2>3
  <2> QED BY <2>5, <2>6, <2>7, <2>8
<1> QED BY <1>3, <1>4, <1>7, <1>8

LEMMA OnServerStep ==
  ASSUME DownloadInv, [DownloadNext]_downloadVars
  PROVE  OnServer'
<1>0. /\ attached \in Seq(Attachments) /\ Len(attached) \in Nat
      /\ \A i, j \in 1..Len(attached) : attached[i] = attached[j] => i = j
      /\ ever \subseteq Attachments /\ IsFiniteSet(ever)
      /\ There \subseteq ever /\ AtFirst \subseteq ever
      /\ Covered \subseteq ever /\ InPage \subseteq ever
  BY DEF DownloadInv, OnServer
<1>1. ASSUME UNCHANGED <<attached, ever>>, Covered' \cup InPage' \subseteq ever PROVE OnServer'
  <2>1. There' = There BY <1>1 DEF There
  <2> QED BY <1>0, <1>1, <2>1 DEF OnServer
<1>2. ASSUME UNCHANGED callVars PROVE Covered' = Covered /\ InPage' = InPage
  BY <1>2 DEF callVars, Covered, InPage
<1>3. CASE Ask \/ ListFailed \/ PageDone
  <2>1. UNCHANGED <<attached, ever, downloaded, failed, response>>
    BY <1>3 DEF Ask, ListFailed, PageDone, othersVars
  <2>2. Covered' = Covered /\ InPage' = InPage BY <2>1 DEF Covered, InPage
  <2> QED BY <1>0, <1>1, <2>1, <2>2
<1>4. CASE Listed
  <2>1. UNCHANGED <<attached, ever, downloaded, failed>> BY <1>4 DEF Listed, othersVars
  <2>2. PICK end \in 0..Len(attached) :
          InPage' = {attached[i] : i \in {j \in (start + 1)..end : Kept(attached[j])}}
    BY <1>4, ListedFacts
  <2>3. start \in Nat BY DEF DownloadInv, DownloadTypes
  <2>4. \A i \in (start + 1)..end : i \in 1..Len(attached) BY <1>0, <2>3
  <2>5. InPage' \subseteq There BY <2>2, <2>4 DEF There
  <2>6. Covered' = Covered BY <2>1 DEF Covered
  <2> QED BY <1>0, <1>1, <2>1, <2>5, <2>6
<1>5. CASE Download
  <2>1. UNCHANGED <<attached, ever>> BY <1>5 DEF Download, othersVars
  <2>2. Covered' \cup InPage' = Covered \cup InPage BY <1>5, DownloadedFacts
  <2> QED BY <1>0, <1>1, <2>1, <2>2
<1>6. CASE Attach
  <2>1. PICK a \in Attachments \ ever : attached' = Append(attached, a) /\ ever' = ever \cup {a}
    BY <1>6 DEF Attach
  <2>2. Covered' = Covered /\ InPage' = InPage BY <1>2, <1>6 DEF Attach
  <2>3. /\ attached' \in Seq(Attachments) /\ Len(attached') = Len(attached) + 1
        /\ attached'[Len(attached) + 1] = a
        /\ \A i \in 1..Len(attached) : attached'[i] = attached[i] /\ attached[i] \in ever
    BY <1>0, <2>1 DEF There
  <2>4. \A i, j \in 1..Len(attached') : attached'[i] = attached'[j] => i = j
    BY <1>0, <2>1, <2>3
  <2>5. There' \subseteq ever' BY <1>0, <2>1, <2>3 DEF There
  <2>6. IsFiniteSet(ever') BY <1>0, <2>1, FS_AddElement
  <2>7. AtFirst' = AtFirst BY DEF AtFirst
  <2> QED BY <1>0, <2>1, <2>2, <2>3, <2>4, <2>5, <2>6, <2>7 DEF OnServer
<1>7. CASE Detach
  <2>1. PICK k \in DOMAIN attached : attached' = RemoveAt(attached, k)
    BY <1>7 DEF Detach
  <2>2. k \in 1..Len(attached) BY <1>0, <2>1
  <2>3. /\ attached' \in Seq(Attachments) /\ Len(attached') = Len(attached) - 1
        /\ \A i \in 1..(Len(attached) - 1) :
             attached'[i] = IF i < k THEN attached[i] ELSE attached[i + 1]
    BY <1>0, <2>1, <2>2, RemovedFacts
  <2>4. ASSUME NEW i \in 1..Len(attached'), NEW j \in 1..Len(attached'),
               attached'[i] = attached'[j]
        PROVE  i = j
    <3> DEFINE place(l) == IF l < k THEN l ELSE l + 1
    <3>1. /\ i \in 1..(Len(attached) - 1) /\ j \in 1..(Len(attached) - 1) BY <2>3
    <3>2. place(i) \in 1..Len(attached) /\ place(j) \in 1..Len(attached) BY <1>0, <2>2, <3>1
    <3>3. attached'[i] = attached[place(i)] /\ attached'[j] = attached[place(j)] BY <2>3, <3>1
    <3>4. place(i) = place(j)
      <4> HIDE DEF place
      <4> QED BY <1>0, <2>4, <3>2, <3>3, Zenon
    <3> QED BY <2>2, <3>1, <3>4
  <2>5. There' \subseteq There BY <1>0, <2>2, <2>3 DEF There
  <2>6. Covered' = Covered /\ InPage' = InPage BY <1>2, <1>7 DEF Detach
  <2>7. ever' = ever /\ AtFirst' = AtFirst BY <1>7 DEF Detach, AtFirst
  <2> QED BY <1>0, <2>3, <2>4, <2>5, <2>6, <2>7 DEF OnServer
<1>8. CASE UNCHANGED downloadVars
  <2>1. UNCHANGED <<attached, ever>> /\ Covered' = Covered /\ InPage' = InPage
    BY <1>2, <1>8 DEF downloadVars, othersVars
  <2> QED BY <1>0, <1>1, <2>1
<1> QED BY <1>3, <1>4, <1>5, <1>6, <1>7, <1>8 DEF DownloadNext, DownloadCall

\* With the limit reached nothing of the list page is left.
LEMMA PageEmpty ==
  ASSUME DownloadInv, PageDone
  PROVE  response.results = <<>>
<1>1. response.results \in Seq(Attachments) /\ Processed \in Nat
      /\ (limit # NoLimit => limit \in Nat)
  BY LimitAssumption DEF DownloadInv, DownloadTypes, Responses, Processed
<1>2. limit # NoLimit => Processed + Len(response.results) <= limit
  BY DEF DownloadInv, InHand
<1>3. CASE LimitReached
  <2>1. Len(response.results) = 0 BY <1>1, <1>2, <1>3 DEF LimitReached
  <2> QED BY <1>1, <2>1
<1> QED BY <1>3 DEF PageDone

LEMMA InHandStep ==
  ASSUME DownloadInv, [DownloadNext]_downloadVars
  PROVE  InHand'
<1>0. /\ InHand /\ response.results \in Seq(Attachments) /\ Len(response.results) \in Nat
      /\ Processed \in Nat /\ (limit # NoLimit => limit \in Nat)
  BY LimitAssumption DEF DownloadInv, DownloadTypes, Responses, Processed
<1>1. CASE Ask
  <2>1. /\ stage = "list" /\ response.results = <<>> /\ UNCHANGED response
        /\ (stage' = "asked" => ~LimitReached) /\ stage' \in {"asked", "done"}
        /\ UNCHANGED <<limit, downloaded, failed, filtered>>
    BY <1>0, <1>1 DEF Ask, Finish, InHand
  <2>2. Processed' = Processed BY <2>1 DEF Processed
  <2>3. LimitReached' = LimitReached BY <2>1, <2>2 DEF LimitReached
  <2> QED BY <1>0, <2>1, <2>2, <2>3 DEF InHand
<1>2. CASE Listed
  <2>1. UNCHANGED <<downloaded, failed, limit, filtered>> /\ stage' = "download"
    BY <1>2 DEF Listed
  <2>2. Processed' = Processed BY <2>1 DEF Processed
  <2>3. PICK end \in 0..Len(attached), next \in Nat \cup {NoStart} :
          /\ next \in NextStarts(end)
          /\ end = Smaller(start + FetchLimit, Len(attached))
          /\ response'.next = next /\ response'.more = (end < Len(attached))
          /\ response'.empty = (response'.results = <<>>)
          /\ response' \in Responses
          /\ FetchLimit \in Nat \ {0} /\ (limit # NoLimit => Processed + FetchLimit <= limit)
          /\ Len(response'.results) <= FetchLimit
          /\ InPage' = {attached[i] : i \in {j \in (start + 1)..end : Kept(attached[j])}}
          /\ \A i, j \in 1..Len(response'.results) :
               response'.results[i] = response'.results[j] => i = j
    BY <1>2, ListedFacts
  <2>4. Len(response'.results) \in Nat BY <2>3 DEF Responses
  <2>5. limit' # NoLimit => Processed' + Len(response'.results) <= limit'
    BY <1>0, <2>1, <2>2, <2>3, <2>4
  <2>6. ASSUME ~filtered, response'.empty PROVE ~response'.more
    <3>1. InPage' = {}
      <4>1. response'.results = <<>> BY <2>3, <2>6
      <4> QED BY <4>1 DEF InPage
    <3>2. \A j \in (start + 1)..end : Kept(attached[j]) BY <2>6 DEF Kept
    <3>3. ASSUME NEW j \in (start + 1)..end PROVE FALSE
      <4>1. j \in {i \in (start + 1)..end : Kept(attached[i])} BY <3>2
      <4>2. attached[j] \in InPage' BY <2>3, <4>1, Zenon
      <4> QED BY <3>1, <4>2
    <3>4. start \in Nat /\ Len(attached) \in Nat BY DEF DownloadInv, DownloadTypes, OnServer
    <3>5. end <= start
      <4>1. ~(start + 1 \in (start + 1)..end) BY <3>3
      <4> QED BY <3>4, <4>1
    <3>6. ~(end < Len(attached)) BY <2>3, <3>4, <3>5 DEF Smaller
    <3> QED BY <2>3, <3>6
  <2> QED BY <2>1, <2>5, <2>6 DEF InHand
<1>3. CASE ListFailed
  <2>1. stage = "asked" /\ stage' = "done" /\ UNCHANGED <<response, limit, downloaded, failed>>
    BY <1>3 DEF ListFailed
  <2>2. Processed' = Processed BY <2>1 DEF Processed
  <2> QED BY <1>0, <2>1, <2>2 DEF InHand
<1>4. CASE Download
  <2>1. stage = "download" /\ UNCHANGED <<stage, limit, filtered>> BY <1>4 DEF Download
  <2>2. /\ Len(response'.results) = Len(response.results) - 1
        /\ response'.more = response.more /\ response'.empty = response.empty
        /\ Processed' = Processed + 1
    BY <1>4, DownloadedFacts
  <2>3. ~filtered' /\ response'.empty => ~response'.more
    BY <1>0, <2>1, <2>2, Zenon DEF InHand
  <2>4. limit' # NoLimit => Processed' + Len(response'.results) <= limit'
    <3>1. limit # NoLimit => Processed + Len(response.results) <= limit BY <1>0 DEF InHand
    <3>2. limit' = limit BY <2>1
    <3>3. Processed' + Len(response'.results) = Processed + Len(response.results)
      <4>1. Len(response.results) \in Nat /\ Processed \in Nat BY <1>0
      <4>2. Processed' = Processed + 1 /\ Len(response'.results) = Len(response.results) - 1
        BY <2>2
      <4> DEFINE p == Processed
                 n == Len(response.results)
                 q == Processed'
                 m == Len(response'.results)
      <4> HIDE DEF p, n, q, m
      <4>3. p \in Nat /\ n \in Nat /\ q = p + 1 /\ m = n - 1 BY <4>1, <4>2 DEF p, n, q, m
      <4>4. q + m = p + n BY <4>3
      <4> QED BY <4>4 DEF p, n, q, m
    <3> QED BY <3>1, <3>2, <3>3, Zenon
  <2> QED BY <2>1, <2>3, <2>4 DEF InHand
<1>5. CASE PageDone
  <2>1. response.results = <<>> BY <1>5, PageEmpty
  <2>2. stage' \in {"list", "done"} /\ UNCHANGED <<response, limit, downloaded, failed>>
    BY <1>5 DEF PageDone, Finish
  <2>3. Processed' = Processed BY <2>2 DEF Processed
  <2> QED BY <1>0, <2>1, <2>2, <2>3 DEF InHand
<1>6. CASE Attach \/ Detach \/ UNCHANGED downloadVars
  <2>1. UNCHANGED callVars BY <1>6 DEF Attach, Detach, downloadVars
  <2>2. UNCHANGED <<stage, response, limit, downloaded, failed, filtered>> BY <2>1 DEF callVars
  <2>3. Processed' = Processed BY <2>2 DEF Processed
  <2>4. LimitReached' = LimitReached BY <2>2, <2>3 DEF LimitReached
  <2> QED BY <1>0, <2>2, <2>3, <2>4 DEF InHand
<1> QED BY <1>1, <1>2, <1>3, <1>4, <1>5, <1>6 DEF DownloadNext, DownloadCall

\* Steps of the call that download nothing and hand on the place reached.
LEMMA PlaceHandedOn ==
  ASSUME DownloadInv, Forward, UNCHANGED <<attached, ever, filtered, downloaded, failed>>,
         UNCHANGED response.results, Reached' \in {Reached, NoStart},
         stage # "done" \/ stage' = "done",
         ListEnded' => ListEnded \/ filtered
  PROVE  Once' /\ FewOwed' /\ InPlace'
<1>1. Covered' = Covered /\ Processed' = Processed /\ InPage' = InPage
  BY DEF Covered, Processed, InPage
<1>2. FewOwed' /\ InPlace' BY <1>1, HandedOn
<1>3. After(Reached)' = After(Reached) \/ Reached' = NoStart BY DEF After
<1>4. Once BY DEF DownloadInv
<1>5. Once' BY <1>1, <1>3, <1>4 DEF Once
<1> QED BY <1>2, <1>5

\* A list page brings what comes next, and nothing that was dealt with.
LEMMA ListedInv ==
  ASSUME DownloadInv, Forward, Listed
  PROVE  Once' /\ FewOwed' /\ InPlace'
<1>0. /\ start \in Nat /\ Len(attached) \in Nat /\ Len(Initially) \in Nat
      /\ \A i, j \in 1..Len(attached) : attached[i] = attached[j] => i = j
      /\ IsFiniteSet(AtFirst) /\ IsFiniteSet(Gone)
  BY DownloadFacts DEF DownloadInv, DownloadTypes, OnServer
<1>1. /\ stage = "asked" /\ stage' = "download"
      /\ UNCHANGED <<attached, ever, filtered, downloaded, failed>>
  BY DEF Listed, othersVars
<1>2. PICK end \in 0..Len(attached), next \in Nat \cup {NoStart} :
        /\ next \in NextStarts(end)
        /\ end = Smaller(start + FetchLimit, Len(attached))
        /\ response'.next = next /\ response'.more = (end < Len(attached))
        /\ response'.empty = (response'.results = <<>>)
        /\ response' \in Responses
        /\ FetchLimit \in Nat \ {0} /\ (limit # NoLimit => Processed + FetchLimit <= limit)
        /\ Len(response'.results) <= FetchLimit
        /\ InPage' = {attached[i] : i \in {j \in (start + 1)..end : Kept(attached[j])}}
        /\ \A i, j \in 1..Len(response'.results) :
             response'.results[i] = response'.results[j] => i = j
  BY ListedFacts
<1>3. next \in {end, NoStart} BY <1>2, ForwardLinks DEF DownloadInv
<1>4. /\ Reached = start /\ start # NoStart /\ Reached' = next /\ InPage = {}
      /\ Covered' = Covered /\ Processed' = Processed
      /\ There' = There /\ Gone' = Gone /\ AtFirst' = AtFirst
  <2>1. response.results = <<>> BY <1>1 DEF DownloadInv, InHand
  <2>2. InPage = {} BY <2>1 DEF InPage
  <2>3. Reached = start /\ Reached' = next BY <1>1, <1>2 DEF Reached
  <2>4. start # NoStart BY <1>0, LinksAssumption
  <2> QED BY <1>1, <2>2, <2>3, <2>4 DEF Covered, Processed, There, Gone, AtFirst
<1>5. \A n : After(n)' = After(n) BY <1>1 DEF After
<1>6. Once /\ FewOwed /\ InPlace BY DEF DownloadInv
<1>7. After(start) \cap Covered = {} /\ Cardinality(Covered) = Processed
  BY <1>1, <1>4, <1>6 DEF Once
<1>8. InPage' \subseteq After(start)
  <2>1. \A i \in (start + 1)..end : i \in (start + 1)..Len(attached) BY <1>0
  <2> QED BY <1>2, <2>1 DEF After
<1>9. After(end) \subseteq After(start) \/ end < start
  <2>1. end >= start => \A i \in (end + 1)..Len(attached) : i \in (start + 1)..Len(attached)
    BY <1>0
  <2> QED BY <1>0, <2>1 DEF After
<1>10. end < start => end = Len(attached) /\ After(start) = {}
  <2>1. ASSUME end < start PROVE end = Len(attached) BY <1>0, <1>2, <2>1 DEF Smaller
  <2>2. ASSUME end < start PROVE (start + 1)..Len(attached) = {} BY <1>0, <2>1, <2>2
  <2> QED BY <2>1, <2>2 DEF After
<1>11. After(Len(attached)) = {}
  <2>1. (Len(attached) + 1)..Len(attached) = {} BY <1>0
  <2> QED BY <2>1 DEF After
<1>12. After(end) \subseteq After(start) BY <1>9, <1>10, <1>11
<1>13. After(end) \cap InPage' = {}
  <2> SUFFICES ASSUME NEW x \in After(end), x \in InPage' PROVE FALSE OBVIOUS
  <2>1. PICK i \in (end + 1)..Len(attached) : attached[i] = x BY DEF After
  <2>2. PICK j \in (start + 1)..end : attached[j] = x BY <1>2
  <2>3. i \in 1..Len(attached) /\ j \in 1..Len(attached) /\ i # j BY <1>0
  <2> QED BY <1>0, <2>1, <2>2, <2>3
<1>14. Once'
  <2>1. InPage' \cap Covered' = {} BY <1>4, <1>7, <1>8
  <2>2. Reached' # NoStart => After(Reached)' \cap (Covered' \cup InPage') = {}
    <3>1. Reached' # NoStart => Reached' = end BY <1>3, <1>4
    <3>2. After(end) \cap (Covered \cup InPage') = {} BY <1>7, <1>12, <1>13
    <3>3. Reached' = end => After(Reached)' = After(end) BY <1>1 DEF After
    <3> QED BY <1>4, <3>1, <3>2, <3>3
  <2> QED BY <1>2, <1>4, <1>7, <2>1, <2>2 DEF Once
<1>15. FewOwed'
  <2> SUFFICES ASSUME ~filtered
               PROVE  /\ Reached' # NoStart =>
                           Cardinality(Owed(After(Reached))') <= Cardinality(Gone)
                      /\ ListEnded' => Cardinality(Owed({})') <= Cardinality(Gone)
    BY <1>1, <1>4 DEF FewOwed
  <2>1. Cardinality(Owed(After(start))) <= Cardinality(Gone) /\ IsFiniteSet(Owed(After(start)))
    <3>1. IsFiniteSet(Owed(After(start))) BY <1>0, FS_Subset DEF Owed
    <3> QED BY <1>4, <1>6, <3>1 DEF FewOwed
  <2>2. After(start) \subseteq InPage' \cup After(end)
    <3> SUFFICES ASSUME NEW i \in (start + 1)..Len(attached)
                 PROVE  attached[i] \in InPage' \cup After(end)
      BY DEF After
    <3>1. CASE i <= end
      <4>1. i \in (start + 1)..end BY <1>0, <3>1
      <4>2. i \in {j \in (start + 1)..end : Kept(attached[j])} BY <4>1 DEF Kept
      <4> QED BY <1>2, <4>2, Zenon
    <3>2. CASE ~(i <= end)
      <4>1. i \in (end + 1)..Len(attached) BY <1>0, <3>2
      <4> QED BY <4>1 DEF After
    <3> QED BY <3>1, <3>2
  <2>3. ASSUME NEW S, After(end) \subseteq S PROVE Cardinality(Owed(S)') <= Cardinality(Gone)
    <3>1. Owed(S)' \subseteq Owed(After(start)) BY <1>4, <2>2, <2>3 DEF Owed
    <3>2. /\ Cardinality(Owed(S)') <= Cardinality(Owed(After(start)))
          /\ IsFiniteSet(Owed(S)')
      BY <2>1, <3>1, FS_Subset
    <3>3. /\ Cardinality(Owed(S)') \in Nat /\ Cardinality(Owed(After(start))) \in Nat
          /\ Cardinality(Gone) \in Nat
      BY <1>0, <2>1, <3>2, FS_CardinalityType
    <3> QED BY <2>1, <3>2, <3>3
  <2>4. Reached' # NoStart => Cardinality(Owed(After(Reached))') <= Cardinality(Gone)
    <3>1. Reached' # NoStart => Reached' = end BY <1>3, <1>4
    <3>2. Reached' = end => Owed(After(Reached))' = Owed(After(end))' BY DEF Owed, After
    <3>3. Owed(After(end))' = (AtFirst \cap There) \ (Covered \cup InPage' \cup After(end))
      BY <1>4, <1>5 DEF Owed
    <3>4. Cardinality((AtFirst \cap There) \ (Covered \cup InPage' \cup After(end)))
            <= Cardinality(Gone)
      BY <1>4, <2>3 DEF Owed
    <3> QED BY <3>1, <3>2, <3>3, <3>4
  <2>5. ListEnded' => Cardinality(Owed({})') <= Cardinality(Gone)
    <3>1. ASSUME ListEnded' PROVE After(end) = {}
      <4>1. ~response'.more BY <1>1, <3>1 DEF ListEnded
      <4>2. ~(end < Len(attached)) BY <1>2, <4>1, Zenon
      <4>3. end = Len(attached) BY <1>0, <4>2
      <4> QED BY <1>11, <4>3
    <3> QED BY <2>3, <3>1
  <2> QED BY <2>4, <2>5
<1>16. InPlace'
  <2> SUFFICES ASSUME AtFirst \subseteq There
               PROVE  /\ Len(Initially) <= Len(attached)
                      /\ \A i \in 1..Len(Initially) : attached[i] = Initially[i]
                      /\ Reached' # NoStart =>
                           \A i \in 1..Len(Initially) :
                             i <= Reached' /\ Kept(Initially[i])
                               => Initially[i] \in Covered \cup InPage'
    BY <1>1, <1>4 DEF InPlace, Kept
  <2>1. /\ Len(Initially) <= Len(attached)
        /\ \A i \in 1..Len(Initially) : attached[i] = Initially[i]
        /\ \A i \in 1..Len(Initially) : i <= start /\ Kept(Initially[i]) => Initially[i] \in Covered
    BY <1>4, <1>6 DEF InPlace
  <2>2. ASSUME NEW i \in 1..Len(Initially), i <= end, Kept(Initially[i])
        PROVE  Initially[i] \in Covered \cup InPage'
    <3>1. CASE i <= start BY <2>1, <2>2, <3>1
    <3>2. CASE ~(i <= start)
      <4>1. i \in (start + 1)..end BY <1>0, <2>2, <3>2
      <4>2. i \in {j \in (start + 1)..end : Kept(attached[j])} BY <2>1, <2>2, <4>1
      <4>3. attached[i] \in InPage' BY <1>2, <4>2, Zenon
      <4> QED BY <2>1, <4>3
    <3> QED BY <3>1, <3>2
  <2>3. Reached' # NoStart => Reached' = end BY <1>3, <1>4
  <2> QED BY <2>1, <2>2, <2>3
<1> QED BY <1>14, <1>15, <1>16

\* A download moves what it downloads, or fails to, out of the list page.
LEMMA DownloadedInv ==
  ASSUME DownloadInv, Forward, Download
  PROVE  Once' /\ FewOwed' /\ InPlace'
<1>1. /\ stage = "download" /\ UNCHANGED <<attached, ever, filtered, stage, report, start>>
  BY DEF Download, othersVars
<1>2. /\ response'.next = response.next /\ response'.more = response.more
      /\ Processed' = Processed + 1
      /\ Len(response'.results) = Len(response.results) - 1
      /\ \A i \in 1..Len(response'.results) : response'.results[i] = response.results[i + 1]
  BY DownloadedFacts
<1>3. PICK a \in InPage :
        /\ a = response.results[1]
        /\ Covered' = Covered \cup {a}
        /\ InPage = InPage' \cup {a}
        /\ a \in InPage' => \E i \in 2..Len(response.results) : response.results[i] = a
  BY DownloadedFacts
<1>4. Once BY DEF DownloadInv
<1>5. Reached' = Reached BY <1>1, <1>2 DEF Reached
<1>6. FewOwed' /\ InPlace'
  <2>1. ListEnded' => ListEnded BY <1>1, <1>2 DEF ListEnded
  <2> QED BY <1>1, <1>3, <1>5, <2>1, HandedOn
<1>7. Len(response.results) \in Nat /\ IsFiniteSet(Covered) /\ Processed \in Nat
  BY DownloadFacts DEF DownloadInv
<1>8. a \notin InPage'
  <2> SUFFICES ASSUME a \in InPage' PROVE FALSE OBVIOUS
  <2>1. PICK i \in 2..Len(response.results) : response.results[i] = a BY <1>3
  <2>2. i \in 1..Len(response.results) /\ 1 \in 1..Len(response.results) /\ i # 1 BY <1>7
  <2> QED BY <1>3, <1>4, <2>1, <2>2 DEF Once
<1>9. Cardinality(Covered') = Processed'
  <2>1. a \notin Covered BY <1>3, <1>4 DEF Once
  <2>2. Cardinality(Covered \cup {a}) = Cardinality(Covered) + 1 BY <1>7, <2>1, FS_AddElement
  <2>3. Cardinality(Covered) = Processed BY <1>4 DEF Once
  <2> QED BY <1>2, <1>3, <2>2, <2>3
<1>10. InPage' \cap Covered' = {} BY <1>3, <1>4, <1>8 DEF Once
<1>11. \A i, j \in 1..Len(response'.results) :
         response'.results[i] = response'.results[j] => i = j
  <2> SUFFICES ASSUME NEW i \in 1..Len(response'.results), NEW j \in 1..Len(response'.results),
                      response'.results[i] = response'.results[j]
               PROVE  i = j
    OBVIOUS
  <2>1. response.results[i + 1] = response.results[j + 1] BY <1>2
  <2>2. i + 1 \in 1..Len(response.results) /\ j + 1 \in 1..Len(response.results)
    BY <1>2, <1>7
  <2>3. i + 1 = j + 1 BY <1>4, <2>1, <2>2 DEF Once
  <2> QED BY <1>2, <1>7, <2>3
<1>12. Reached # NoStart => After(Reached)' \cap (Covered' \cup InPage') = {}
  <2>1. After(Reached)' = After(Reached) BY <1>1, <1>5 DEF After
  <2> QED BY <1>1, <1>3, <1>4, <2>1 DEF Once
<1>13. Once' BY <1>5, <1>9, <1>10, <1>11, <1>12 DEF Once
<1> QED BY <1>6, <1>13

\* What is attached is new, and listed behind all else.
LEMMA AttachInv ==
  ASSUME DownloadInv, Forward, Attach
  PROVE  Once' /\ FewOwed' /\ InPlace'
<1>0. /\ attached \in Seq(Attachments) /\ Len(attached) \in Nat
      /\ There \subseteq ever /\ AtFirst \subseteq ever /\ Covered \cup InPage \subseteq ever
      /\ Once /\ FewOwed /\ InPlace /\ Len(Initially) \in Nat
  BY DownloadFacts DEF DownloadInv, OnServer
<1>1. /\ UNCHANGED <<stage, start, response, report, filtered, downloaded, failed>>
  BY DEF Attach, callVars
<1>2. /\ Covered' = Covered /\ InPage' = InPage /\ Processed' = Processed /\ AtFirst' = AtFirst
      /\ Reached' = Reached /\ ListEnded' = ListEnded
  BY <1>1 DEF Covered, InPage, Processed, AtFirst, Reached, ListEnded
<1>3. PICK a \in Attachments \ ever : attached' = Append(attached, a) /\ ever' = ever \cup {a}
  BY DEF Attach
<1>4. /\ Len(attached') = Len(attached) + 1 /\ attached'[Len(attached) + 1] = a
      /\ \A i \in 1..Len(attached) : attached'[i] = attached[i]
  BY <1>0, <1>3
<1>5. There' = There \cup {a}
  <2>1. \A i \in 1..(Len(attached) + 1) : i \in 1..Len(attached) \/ i = Len(attached) + 1
    BY <1>0
  <2>2. 1..Len(attached) \subseteq 1..(Len(attached) + 1)
        /\ Len(attached) + 1 \in 1..(Len(attached) + 1)
    BY <1>0
  <2> QED BY <1>4, <2>1, <2>2 DEF There
<1>6. Gone' = Gone BY <1>0, <1>3, <1>5 DEF Gone
<1> DEFINE behind(n) == {attached'[i] : i \in (n + 1)..Len(attached')}
<1>7. ASSUME NEW n \in Nat
      PROVE  behind(n) \in {After(n), After(n) \cup {a}}
  <2>1. CASE n <= Len(attached)
    <3>1. \A i \in (n + 1)..(Len(attached) + 1) :
            i \in (n + 1)..Len(attached) \/ i = Len(attached) + 1
      BY <1>0
    <3>2. (n + 1)..Len(attached) \subseteq (n + 1)..(Len(attached) + 1)
          /\ Len(attached) + 1 \in (n + 1)..(Len(attached) + 1)
          /\ (n + 1)..Len(attached) \subseteq 1..Len(attached)
      BY <1>0, <2>1
    <3>3. behind(n) = After(n) \cup {a} BY <1>4, <3>1, <3>2 DEF After
    <3> QED BY <3>3
  <2>2. CASE ~(n <= Len(attached))
    <3>1. (n + 1)..(Len(attached) + 1) = {} /\ (n + 1)..Len(attached) = {} BY <1>0, <2>2
    <3>2. behind(n) = {} /\ After(n) = {} BY <1>4, <3>1 DEF After
    <3> QED BY <3>2
  <2> QED BY <2>1, <2>2
<1>8. After(Reached)' = behind(Reached) BY <1>2 DEF After
<1>9. Reached # NoStart => Reached \in Nat
  BY DownloadFacts DEF DownloadInv, DownloadTypes, Reached
<1>10. Reached # NoStart => After(Reached)' \in {After(Reached), After(Reached) \cup {a}}
  <2> HIDE DEF behind
  <2> QED BY <1>7, <1>8, <1>9
<1>11. Once'
  <2>1. ASSUME stage # "done", Reached # NoStart
        PROVE  After(Reached)' \cap (Covered \cup InPage) = {}
    <3>1. a \notin Covered \cup InPage BY <1>0, <1>3
    <3> QED BY <1>0, <1>10, <2>1, <3>1 DEF Once
  <2> QED BY <1>0, <1>1, <1>2, <2>1 DEF Once
<1>12. FewOwed'
  <2>1. a \notin AtFirst BY <1>0, <1>3
  <2>2. Owed({})' = Owed({}) BY <1>2, <1>5, <2>1 DEF Owed
  <2>3. Reached # NoStart => Owed(After(Reached))' = Owed(After(Reached))
    BY <1>2, <1>5, <1>10, <2>1 DEF Owed
  <2> QED BY <1>0, <1>1, <1>2, <1>6, <2>2, <2>3 DEF FewOwed
<1>13. InPlace'
  <2>1. AtFirst' \subseteq There' => AtFirst \subseteq There BY <1>0, <1>2, <1>3, <1>5
  <2>2. ASSUME AtFirst \subseteq There
        PROVE  /\ Len(Initially) <= Len(attached')
               /\ \A i \in 1..Len(Initially) : attached'[i] = Initially[i]
    BY <1>0, <1>4, <2>2 DEF InPlace
  <2> QED BY <1>0, <1>1, <1>2, <2>1, <2>2 DEF InPlace, Kept
<1> QED BY <1>11, <1>12, <1>13

\* What is deleted moves the ones behind it forward: at most one of them is passed over.
LEMMA DetachInv ==
  ASSUME DownloadInv, Forward, Detach
  PROVE  Once' /\ FewOwed' /\ InPlace'
<1>0. /\ attached \in Seq(Attachments) /\ Len(attached) \in Nat
      /\ \A i, j \in 1..Len(attached) : attached[i] = attached[j] => i = j
      /\ There \subseteq ever /\ AtFirst \subseteq ever
      /\ Once /\ FewOwed /\ InPlace /\ Len(Initially) \in Nat
      /\ IsFiniteSet(Gone) /\ IsFiniteSet(AtFirst)
  BY DownloadFacts DEF DownloadInv, OnServer
<1>1. /\ UNCHANGED <<stage, start, response, report, filtered, downloaded, failed>>
  BY DEF Detach, callVars
<1>2. /\ Covered' = Covered /\ InPage' = InPage /\ Processed' = Processed /\ AtFirst' = AtFirst
      /\ Reached' = Reached /\ ListEnded' = ListEnded
  BY <1>1 DEF Covered, InPage, Processed, AtFirst, Reached, ListEnded
<1>3. PICK k \in 1..Len(attached) : attached' = RemoveAt(attached, k)
  BY <1>0 DEF Detach
<1>4. /\ Len(attached') = Len(attached) - 1
      /\ \A i \in 1..(Len(attached) - 1) :
           attached'[i] = IF i < k THEN attached[i] ELSE attached[i + 1]
  BY <1>0, <1>3, RemovedFacts
<1> DEFINE x == attached[k]
<1>5. There' = There \ {x} /\ x \in There
  <2>1. There' \subseteq There \ {x}
    <3> SUFFICES ASSUME NEW i \in 1..(Len(attached) - 1)
                 PROVE  attached'[i] \in There /\ attached'[i] # x
      BY <1>4 DEF There
    <3>1. i \in 1..Len(attached) /\ i + 1 \in 1..Len(attached) BY <1>0
    <3>2. CASE i < k BY <1>0, <1>4, <3>1, <3>2 DEF There
    <3>3. CASE ~(i < k)
      <4>1. attached'[i] = attached[i + 1] /\ i + 1 # k BY <1>3, <1>4, <3>3
      <4> QED BY <1>0, <3>1, <4>1 DEF There
    <3> QED BY <3>2, <3>3
  <2>2. There \ {x} \subseteq There'
    <3> SUFFICES ASSUME NEW i \in 1..Len(attached), attached[i] # x PROVE attached[i] \in There'
      BY DEF There
    <3>1. CASE i < k
      <4>1. i \in 1..(Len(attached) - 1) /\ attached'[i] = attached[i] BY <1>0, <1>4, <3>1
      <4> QED BY <1>4, <4>1 DEF There
    <3>2. CASE i > k
      <4>1. i - 1 \in 1..(Len(attached) - 1) /\ ~(i - 1 < k) /\ (i - 1) + 1 = i
        BY <1>0, <3>2
      <4>2. attached'[i - 1] = attached[i] BY <1>4, <4>1
      <4> QED BY <1>4, <4>1, <4>2 DEF There
    <3> QED BY <3>1, <3>2
  <2>3. x \in There BY DEF There
  <2> QED BY <2>1, <2>2, <2>3
<1>6. /\ Cardinality(Gone') = Cardinality(Gone) + 1
      /\ Cardinality(Gone) \in Nat
  <2>1. ever' = ever BY DEF Detach
  <2>2. Gone' = Gone \cup {x} /\ x \notin Gone BY <1>0, <1>5, <2>1 DEF Gone
  <2> HIDE DEF x
  <2> QED BY <1>0, <2>2, FS_AddElement, FS_CardinalityType
<1> DEFINE behind(n) == {attached'[i] : i \in (n + 1)..Len(attached')}
<1>7. ASSUME NEW n \in Nat
      PROVE  /\ behind(n) \subseteq After(n)
             /\ \E y : After(n) \subseteq behind(n) \cup {x, y}
  <2>1. behind(n) \subseteq After(n)
    <3> SUFFICES ASSUME NEW i \in (n + 1)..(Len(attached) - 1) PROVE attached'[i] \in After(n)
      BY <1>4
    <3>1. i \in (n + 1)..Len(attached) /\ i + 1 \in (n + 1)..Len(attached)
          /\ i \in 1..(Len(attached) - 1)
      BY <1>0
    <3> QED BY <1>4, <3>1 DEF After
  <2>2. After(n) \subseteq behind(n) \cup {x, attached[n + 1]}
    <3> SUFFICES ASSUME NEW i \in (n + 1)..Len(attached), i # k, i # n + 1
                 PROVE  attached[i] \in behind(n)
      BY DEF After
    <3>1. CASE i < k
      <4>1. i \in (n + 1)..(Len(attached) - 1) /\ i \in 1..(Len(attached) - 1)
        BY <1>0, <3>1
      <4>2. attached'[i] = attached[i] BY <1>4, <3>1, <4>1
      <4> QED BY <1>4, <4>1, <4>2
    <3>2. CASE ~(i < k)
      <4>1. /\ i - 1 \in (n + 1)..(Len(attached) - 1) /\ i - 1 \in 1..(Len(attached) - 1)
            /\ ~(i - 1 < k) /\ (i - 1) + 1 = i
        BY <1>0, <3>2
      <4>2. attached'[i - 1] = attached[i] BY <1>4, <4>1
      <4> QED BY <1>4, <4>1, <4>2
    <3> QED BY <3>1, <3>2
  <2> QED BY <2>1, <2>2
<1>8. After(Reached)' = behind(Reached) BY <1>2 DEF After
<1>9. Reached # NoStart => Reached \in Nat
  BY DownloadFacts DEF DownloadInv, DownloadTypes, Reached
<1>10. Reached # NoStart =>
         /\ After(Reached)' \subseteq After(Reached)
         /\ \E y : After(Reached) \subseteq After(Reached)' \cup {x, y}
  <2> HIDE DEF behind, x
  <2> QED BY <1>7, <1>8, <1>9
<1>11. Once' BY <1>0, <1>1, <1>2, <1>10 DEF Once
<1>12. ASSUME ~filtered, Reached # NoStart
       PROVE  Cardinality(Owed(After(Reached))') <= Cardinality(Gone')
  <2> DEFINE o == Owed(After(Reached))
             p == Owed(After(Reached))'
  <2>1. PICK y : After(Reached) \subseteq After(Reached)' \cup {x, y} BY <1>10, <1>12
  <2>2. p \subseteq o \cup {y} BY <1>2, <1>5, <2>1 DEF Owed
  <2>3. IsFiniteSet(o) /\ Cardinality(o) <= Cardinality(Gone)
    <3>1. IsFiniteSet(o) BY <1>0, FS_Subset DEF Owed
    <3> QED BY <1>0, <1>12, <3>1 DEF FewOwed
  <2> HIDE DEF o, p
  <2>4. /\ IsFiniteSet(o \cup {y}) /\ Cardinality(o) \in Nat
        /\ Cardinality(o \cup {y}) <= Cardinality(o) + 1
    <3>1. Cardinality(o) \in Nat BY <2>3, FS_CardinalityType
    <3>2. /\ IsFiniteSet(o \cup {y})
          /\ Cardinality(o \cup {y}) = IF y \in o THEN Cardinality(o) ELSE Cardinality(o) + 1
      BY <2>3, FS_AddElement, Zenon
    <3> HIDE DEF o
    <3> QED BY <3>1, <3>2
  <2>5. IsFiniteSet(p) /\ Cardinality(p) <= Cardinality(o \cup {y}) BY <2>2, <2>4, FS_Subset
  <2>6. Cardinality(p) \in Nat /\ Cardinality(o \cup {y}) \in Nat
    BY <2>4, <2>5, FS_CardinalityType
  <2>7. Cardinality(p) <= Cardinality(Gone') BY <1>6, <2>3, <2>4, <2>5, <2>6
  <2> QED BY <2>7 DEF p
<1>13. ASSUME ~filtered, ListEnded
       PROVE  Cardinality(Owed({})') <= Cardinality(Gone')
  <2>1. Owed({})' \subseteq Owed({}) BY <1>2, <1>5 DEF Owed
  <2>2. IsFiniteSet(Owed({})) BY <1>0, FS_Subset DEF Owed
  <2>3. Cardinality(Owed({})) <= Cardinality(Gone) BY <1>0, <1>13 DEF FewOwed
  <2>4. IsFiniteSet(Owed({})') /\ Cardinality(Owed({})') <= Cardinality(Owed({}))
    BY <2>1, <2>2, FS_Subset
  <2>5. Cardinality(Owed({})') \in Nat /\ Cardinality(Owed({})) \in Nat
    BY <2>2, <2>4, FS_CardinalityType
  <2> QED BY <1>6, <2>3, <2>4, <2>5
<1>14. FewOwed' BY <1>1, <1>2, <1>12, <1>13 DEF FewOwed
<1>15. InPlace'
  <2> SUFFICES ASSUME AtFirst \subseteq There'
               PROVE  /\ Len(Initially) <= Len(attached')
                      /\ \A i \in 1..Len(Initially) : attached'[i] = Initially[i]
                      /\ Reached # NoStart =>
                           \A i \in 1..Len(Initially) :
                             i <= Reached /\ Kept(Initially[i])
                               => Initially[i] \in Covered \cup InPage
    BY <1>1, <1>2 DEF InPlace, Kept
  <2>1. x \notin AtFirst /\ AtFirst \subseteq There BY <1>5
  <2>2. /\ Len(Initially) <= Len(attached)
        /\ \A i \in 1..Len(Initially) : attached[i] = Initially[i]
        /\ Reached # NoStart =>
             \A i \in 1..Len(Initially) :
               i <= Reached /\ Kept(Initially[i]) => Initially[i] \in Covered \cup InPage
    BY <1>0, <2>1 DEF InPlace
  <2>3. k > Len(Initially)
    <3>1. ~(k \in 1..Len(Initially)) BY <2>1, <2>2 DEF AtFirst
    <3> QED BY <1>0, <3>1
  <2>4. ASSUME NEW i \in 1..Len(Initially) PROVE attached'[i] = Initially[i]
    <3>1. i < k /\ i \in 1..(Len(attached) - 1) BY <1>0, <2>3
    <3> QED BY <1>4, <2>2, <3>1
  <2>5. Len(Initially) <= Len(attached') BY <1>0, <1>4, <2>3
  <2> QED BY <2>2, <2>4, <2>5
<1> QED BY <1>11, <1>14, <1>15

LEMMA DownloadStep ==
  ASSUME DownloadInv, [DownloadNext]_downloadVars
  PROVE  DownloadInv'
<1>1. DownloadTypes' /\ OnServer' /\ InHand' BY DownloadTypesStep, OnServerStep, InHandStep
<1>2. ASSUME Forward' PROVE Once' /\ FewOwed' /\ InPlace'
  <2>1. Forward
    <3>1. links' = links
      BY DEF DownloadNext, DownloadCall, Ask, Listed, ListFailed, Download, PageDone, Attach,
             Detach, downloadVars, othersVars
    <3> QED BY <1>2, <3>1 DEF Forward
  <2>2. CASE Ask
    <3>1. /\ UNCHANGED <<attached, ever, filtered, downloaded, failed, response>>
          /\ stage = "list" /\ stage' \in {"asked", "done"}
      BY <2>2 DEF Ask, Finish, othersVars
    <3>2. Reached' = Reached /\ ~ListEnded'
      <4>1. CASE LimitReached
        BY <2>2, <3>1, <4>1 DEF Ask, Finish, Reached, ListEnded
      <4>2. CASE ~LimitReached
        BY <2>2, <3>1, <4>2 DEF Ask, Reached, ListEnded
      <4> QED BY <4>1, <4>2
    <3> QED BY <2>1, <3>1, <3>2, PlaceHandedOn
  <2>3. CASE Listed BY <2>1, <2>3, ListedInv
  <2>4. CASE ListFailed
    <3>1. /\ UNCHANGED <<attached, ever, filtered, downloaded, failed, response>>
          /\ stage = "asked" /\ stage' = "done" /\ report' = [status |-> "error"]
      BY <2>4 DEF ListFailed, othersVars
    <3>2. Reached' = NoStart /\ ~ListEnded' BY <3>1 DEF Reached, ListEnded
    <3> QED BY <2>1, <3>1, <3>2, PlaceHandedOn
  <2>5. CASE Download BY <2>1, <2>5, DownloadedInv
  <2>6. CASE PageDone
    <3>1. /\ UNCHANGED <<attached, ever, filtered, downloaded, failed, response>>
          /\ stage = "download" /\ stage' \in {"list", "done"}
      BY <2>6 DEF PageDone, Finish, othersVars
    <3>2. CASE GoesOn
      <4>1. stage' = "list" /\ start' = response.next
        BY <2>6, <3>2 DEF PageDone, NextStart
      <4>2. Reached' = Reached /\ ~ListEnded' BY <3>1, <4>1 DEF Reached, ListEnded
      <4> QED BY <2>1, <3>1, <4>2, PlaceHandedOn
    <3>3. CASE ~GoesOn
      <4> DEFINE applied == /\ ~LastPage
                            /\ LimitReached \/ pagesFetched >= MaxPages \/ response.next # NoStart
      <4>1. /\ stage' = "done"
            /\ report' = [status |-> "ok", has_more |-> ~LastPage,
                          next_start |-> IF LastPage THEN NoStart ELSE response.next,
                          limit_applied |-> applied]
        BY <2>6, <3>3 DEF PageDone, Finish
      <4> HIDE DEF applied
      <4>2. Reached' \in {Reached, NoStart} BY <3>1, <4>1 DEF Reached
      <4>3. ASSUME ListEnded' PROVE ListEnded \/ filtered
        <5>1. LastPage BY <4>1, <4>3 DEF ListEnded
        <5>2. InHand /\ filtered \in BOOLEAN BY DEF DownloadInv, DownloadTypes
        <5> QED BY <3>1, <5>1, <5>2 DEF LastPage, ListEnded, InHand
      <4> QED BY <2>1, <3>1, <4>1, <4>2, <4>3, PlaceHandedOn
    <3> QED BY <3>2, <3>3
  <2>7. CASE Attach BY <2>1, <2>7, AttachInv
  <2>8. CASE Detach BY <2>1, <2>8, DetachInv
  <2>9. CASE UNCHANGED downloadVars
    <3>1. UNCHANGED <<attached, ever, filtered, downloaded, failed, response, stage, start, report>>
      BY <2>9 DEF downloadVars, othersVars, callVars
    <3>2. Reached' = Reached /\ ListEnded' = ListEnded BY <3>1 DEF Reached, ListEnded
    <3> QED BY <2>1, <3>1, <3>2, PlaceHandedOn
  <2> QED
    BY <2>2, <2>3, <2>4, <2>5, <2>6, <2>7, <2>8, <2>9 DEF DownloadNext, DownloadCall
<1> QED BY <1>1, <1>2 DEF DownloadInv

\* When the call is done, nothing of a list page is left.
LEMMA DownloadSafe ==
  ASSUME DownloadInv
  PROVE  NothingTwice /\ NoMoreMeansAll /\ ResumePoint
<1>1. NothingTwice BY DEF DownloadInv, Once, NothingTwice
<1>2. report.status = "ok" => stage = "done" /\ InPage = {}
  <2> SUFFICES ASSUME report.status = "ok" PROVE stage = "done" /\ InPage = {} OBVIOUS
  <2>1. stage = "done" BY DEF DownloadInv, DownloadTypes, NoReport
  <2>2. response.results = <<>> BY <2>1 DEF DownloadInv, InHand
  <2> QED BY <2>1, <2>2 DEF InPage
<1>3. There = ToSet(attached) /\ AtFirst = ToSet(Initially)
  <2>1. attached \in Seq(Attachments) /\ Initially \in Seq(Attachments)
    BY InitiallyAssumption DEF DownloadInv, OnServer
  <2> QED BY <2>1 DEF There, AtFirst, ToSet
<1>4. NoMoreMeansAll
  <2> SUFFICES ASSUME report.status = "ok", ~filtered, Forward, ~report.has_more
               PROVE  Cardinality((ToSet(Initially) \cap ToSet(attached)) \ Covered)
                        <= Cardinality(ever \ ToSet(attached))
    BY DEF NoMoreMeansAll
  <2>1. ListEnded BY <1>2 DEF ListEnded
  <2>2. Cardinality(Owed({})) <= Cardinality(Gone) BY <2>1 DEF DownloadInv, FewOwed
  <2>3. Owed({}) = (ToSet(Initially) \cap ToSet(attached)) \ Covered BY <1>2, <1>3 DEF Owed
  <2> QED BY <1>3, <2>2, <2>3 DEF Gone
<1>5. ResumePoint
  <2> SUFFICES ASSUME report.status = "ok", Steady, report.has_more, report.next_start # NoStart,
                      NEW i \in 1..Smaller(report.next_start, Len(Initially)), Kept(Initially[i])
               PROVE  Initially[i] \in Covered
    BY DEF ResumePoint
  <2>1. /\ Len(attached) \in Nat /\ Len(Initially) \in Nat
        /\ attached \in Seq(Attachments) /\ Initially \in Seq(Attachments)
        /\ report.next_start \in Nat
    BY DownloadFacts, InitiallyAssumption DEF DownloadInv, OnServer
  <2>2. AtFirst \subseteq There
    <3> SUFFICES ASSUME NEW j \in 1..Len(Initially) PROVE Initially[j] \in There BY DEF AtFirst
    <3>1. /\ Len(Initially) <= Len(attached)
          /\ SubSeq(Initially, 1, Len(Initially)) = SubSeq(attached, 1, Len(Initially))
      BY DEF Steady, IsPrefix
    <3>2. SubSeq(Initially, 1, Len(Initially))[j] = Initially[j]
          /\ SubSeq(attached, 1, Len(Initially))[j] = attached[j]
      BY <2>1, <3>1
    <3>3. j \in 1..Len(attached) BY <2>1, <3>1
    <3> QED BY <3>1, <3>2, <3>3 DEF There
  <2>3. Reached = report.next_start BY <1>2 DEF Reached
  <2>4. i \in 1..Len(Initially) /\ i <= report.next_start BY <2>1 DEF Smaller
  <2>5. InPlace BY DEF DownloadInv, Steady
  <2> QED BY <1>2, <2>2, <2>3, <2>4, <2>5 DEF InPlace
<1> QED BY <1>1, <1>4, <1>5

\* download_content_attachments, for every list of attachments, limit, page size and
\* number of changes by others: the list pages and what was taken from them.
THEOREM DownloadInvariant == DownloadSpec => []DownloadInv
<1> QED BY DownloadStarts, DownloadStep, PTL DEF DownloadSpec

\* download_content_attachments: no attachment is downloaded or reported twice, as long as the
\* server's links lead forward.
THEOREM DownloadsOnce == DownloadSpec => []NothingTwice
<1> QED BY DownloadInvariant, DownloadSafe, PTL

\* download_content_attachments: without a filter, "no more" means that at most as many
\* attachments were passed over as others deleted meanwhile.
THEOREM DownloadsAll == DownloadSpec => []NoMoreMeansAll
<1> QED BY DownloadInvariant, DownloadSafe, PTL

\* download_content_attachments: a caller that goes on where the answer says misses nothing.
THEOREM DownloadsResume == DownloadSpec => []ResumePoint
<1> QED BY DownloadInvariant, DownloadSafe, PTL

-----------------------------------------------------------------------------
(* The children of a page.                                                 *)

\* How many pages there were when the caller began, and what a child is.
PagesAtFirst == pages - created
Kids == {"page", "folder"} \X Nat

ChildrenTypes ==
  /\ pages \in Nat /\ folders \in Nat /\ created \in 0..pages
  /\ windowSize \in WindowSizes /\ includeFolders \in BOOLEAN
  /\ windowStart \in Nat /\ pageResults \in Nat /\ pageStart \in Nat
  /\ counted \in Nat /\ countStart \in Nat /\ requests \in Nat
  /\ step \in {"pages", "recount", "folders", "window", "stopped"}
  /\ window \in Seq(Kids) /\ walked \in Seq(Kids)

\* How many pages the windows up to this one take account of.
Accounted ==
  IF pageResults = 0 /\ windowStart > 0 THEN Smaller(counted, windowStart)
  ELSE windowStart + pageResults

\* The windows before this one, when the last of them took account of e pages: they hold
\* the first f folders, and whatever they hold twice, or will when folders are asked for
\* from here on, is due to a page created after the e pages were seen.
Joined(e, f) ==
  /\ e <= pages /\ (f > 0 => PagesAtFirst <= e /\ includeFolders)
  /\ \A p \in Nat : <<"page", p>> \in Range(walked) => p <= windowStart
  /\ \A p \in 1..PagesAtFirst : p <= windowStart => <<"page", p>> \in Range(walked)
  /\ \A k \in Nat : <<"folder", k>> \in Range(walked) <=> k \in 1..f
  /\ includeFolders => Smaller(folders, windowStart - e) <= f
  /\ Len(walked) + Minus(f, windowStart - e)
       <= Cardinality(Range(walked)) + Minus(e, PagesAtFirst)
  /\ created = 0 =>
       /\ Len(walked) = Smaller(windowStart, Total)
       /\ \A i \in 1..Len(walked) : walked[i] = Child(i)

\* The pages were asked for and do not fill the window, and no folders were got.
PagesRead ==
  /\ pageStart = windowStart /\ pageResults < windowSize /\ folderQuery = "none"
  /\ window = Children("page", windowStart, pageResults)
  /\ PagesAtFirst <= windowStart + pageResults
  /\ pageResults > 0 => windowStart + pageResults <= pages

\* The pages this window takes account of are at least those of the one before, and
\* at least those there were at first.
AccountedFor(e) == e <= Accounted /\ PagesAtFirst <= Accounted /\ Accounted <= pages

\* This window.
Reading(e) ==
  /\ step = "recount" =>
       /\ PagesRead /\ includeFolders /\ pageResults = 0 /\ windowStart > 0
       /\ counted = countStart /\ counted <= pages
  /\ step = "folders" => PagesRead /\ includeFolders /\ AccountedFor(e)
  /\ step = "window" =>
       \/ /\ pageResults = windowSize /\ windowStart + windowSize <= pages
          /\ window = Children("page", windowStart, windowSize)
       \/ PagesRead
       \/ /\ pageStart = windowStart /\ pageResults < windowSize /\ includeFolders
          /\ AccountedFor(e)
          /\ window = Children("page", windowStart, pageResults)
               \o Children("folder", FolderStart, InAnswer(folders, FolderStart, Remaining))

ChildrenInv ==
  ChildrenTypes /\ \E e \in 0..windowStart, f \in 0..folders : Joined(e, f) /\ Reading(e)

\* A server that puts as many children into an answer as a window asks for.
AnswersInFull == \A w \in WindowSizes : w <= ServerCap

LEMMA ChildrenFacts ==
  ASSUME NEW kind \in {"page", "folder"}, NEW s \in Nat, NEW n \in Nat
  PROVE  LET c == Children(kind, s, n)
         IN  /\ c \in Seq(Kids) /\ Len(c) = n /\ \A i \in 1..n : c[i] = <<kind, s + i>>
             /\ IsFiniteSet(Range(c)) /\ Cardinality(Range(c)) = n
             /\ \A x : x \in Range(c) <=> \E i \in 1..n : x = <<kind, s + i>>
<1> DEFINE c == Children(kind, s, n)
<1>1. \A i \in 1..n : c[i] = <<kind, s + i>> BY DEF Children
<1>2. \A i \in 1..n : <<kind, s + i>> \in Kids BY DEF Kids
<1>3. c \in Seq(Kids) /\ Len(c) = n
  <2>1. c = [i \in 1..n |-> <<kind, s + i>>] BY DEF Children
  <2>2. c \in [1..n -> Kids] BY <1>2, <2>1
  <2> HIDE DEF c
  <2>3. c \in Seq(Kids) BY <2>2
  <2>4. Len(c) = n BY <2>1
  <2> QED BY <2>3, <2>4
<1> HIDE DEF c
<1>4. Range(c) = {c[i] : i \in 1..n} BY <1>3, RangeFinite
<1>5. \A i, j \in 1..n : c[i] = c[j] => i = j
  <2> SUFFICES ASSUME NEW i \in 1..n, NEW j \in 1..n, c[i] = c[j] PROVE i = j OBVIOUS
  <2>1. <<kind, s + i>> = <<kind, s + j>> BY <1>1
  <2>2. s + i = s + j BY <2>1
  <2> QED BY <2>2
<1>6. IsFiniteSet(Range(c)) /\ Cardinality(Range(c)) = n
  <2>1. Range(c) = {c[i] : i \in 1..Len(c)} BY <1>3, <1>4
  <2>2. \A i, j \in 1..Len(c) : c[i] = c[j] => i = j BY <1>3, <1>5
  <2>3. c \in Seq(Kids) BY <1>3
  <2>4. /\ IsFiniteSet({c[i] : i \in 1..Len(c)})
        /\ Cardinality({c[i] : i \in 1..Len(c)}) = Len(c)
    BY <2>2, <2>3, ElementsFacts
  <2> QED BY <1>3, <2>1, <2>4
<1>7. \A x : x \in Range(c) <=> \E i \in 1..n : x = <<kind, s + i>> BY <1>1, <1>4
<1> QED BY <1>1, <1>3, <1>6, <1>7 DEF c

\* A window of a pages and b folders behind the first d.
WindowOf(w, a, d, b) ==
  /\ w \in Seq(Kids) /\ Len(w) = a + b
  /\ \A i \in 1..a : w[i] = <<"page", windowStart + i>>
  /\ \A i \in 1..b : w[a + i] = <<"folder", d + i>>

LEMMA WindowParts ==
  ASSUME windowStart \in Nat, NEW a \in Nat, NEW d \in Nat, NEW b \in Nat
  PROVE  /\ WindowOf(Children("page", windowStart, a), a, d, 0)
         /\ WindowOf(Children("page", windowStart, a) \o Children("folder", d, b), a, d, b)
<1> DEFINE p == Children("page", windowStart, a)
           q == Children("folder", d, b)
<1>1. p \in Seq(Kids) /\ Len(p) = a /\ \A i \in 1..a : p[i] = <<"page", windowStart + i>>
  BY ChildrenFacts
<1>2. q \in Seq(Kids) /\ Len(q) = b /\ \A i \in 1..b : q[i] = <<"folder", d + i>>
  BY ChildrenFacts
<1> HIDE DEF p, q
<1>3. /\ p \o q \in Seq(Kids) /\ Len(p \o q) = Len(p) + Len(q)
      /\ \A i \in 1..(Len(p) + Len(q)) :
           (p \o q)[i] = IF i <= Len(p) THEN p[i] ELSE q[i - Len(p)]
  BY <1>1, <1>2, ConcatProperties
<1> DEFINE w == p \o q
<1> HIDE DEF w
<1>4. \A i \in 1..(a + b) : w[i] = IF i <= a THEN p[i] ELSE q[i - a] BY <1>1, <1>2, <1>3 DEF w
<1>5. \A i \in 1..a : w[i] = p[i]
  <2>1. \A i \in 1..a : i \in 1..(a + b) /\ i <= a OBVIOUS
  <2> QED BY <1>4, <2>1
<1>6. \A i \in 1..b : w[a + i] = q[i]
  <2>1. \A i \in 1..b : a + i \in 1..(a + b) /\ ~(a + i <= a) /\ (a + i) - a = i OBVIOUS
  <2> QED BY <1>4, <2>1
<1>7. w \in Seq(Kids) /\ Len(w) = a + b BY <1>1, <1>2, <1>3 DEF w
<1>8. WindowOf(w, a, d, b) BY <1>1, <1>2, <1>5, <1>6, <1>7 DEF WindowOf
<1>9. WindowOf(p, a, d, 0) BY <1>1 DEF WindowOf
<1> QED BY <1>8, <1>9 DEF w, p, q

\* The windows before this one, joined to one of a pages, and of b folders behind the
\* first d, of which those behind the first f are new and g folders are held then.
JoinedTo(joined, f, a, d, b, g) ==
  /\ joined \in Seq(Kids) /\ Len(joined) = Len(walked) + (a + b)
  /\ \A i \in 1..Len(walked) : joined[i] = walked[i]
  /\ \A i \in 1..a : joined[Len(walked) + i] = <<"page", windowStart + i>>
  /\ \A i \in 1..b : joined[Len(walked) + a + i] = <<"folder", d + i>>
  /\ Range(walked) \subseteq Range(joined)
  /\ \A i \in 1..a : <<"page", windowStart + i>> \in Range(joined)
  /\ \A p \in Nat : <<"page", p>> \in Range(joined) => p <= windowStart + a
  /\ \A k \in Nat : <<"folder", k>> \in Range(joined) <=> k \in 1..g
  /\ Cardinality(Range(joined)) \in Nat /\ Cardinality(Range(walked)) \in Nat
  /\ Cardinality(Range(joined)) >= Cardinality(Range(walked)) + a + (g - f)

\* What is in the windows together, and how much of it is new: the pages, and the folders
\* behind the first f.
LEMMA WindowRange ==
  ASSUME ChildrenTypes, NEW f \in Nat, NEW a \in Nat, NEW d \in Nat, NEW b \in Nat,
         WindowOf(window, a, d, b), b > 0 => d <= f,
         \A p \in Nat : <<"page", p>> \in Range(walked) => p <= windowStart,
         \A k \in Nat : <<"folder", k>> \in Range(walked) <=> k \in 1..f,
         NEW g, g = IF b > 0 /\ d + b > f THEN d + b ELSE f
  PROVE  JoinedTo(walked \o window, f, a, d, b, g)
<1> DEFINE joined == walked \o window
           n == Len(walked)
<1>1. /\ walked \in Seq(Kids) /\ window \in Seq(Kids) /\ n \in Nat /\ windowStart \in Nat
      /\ Len(window) = a + b
  BY DEF ChildrenTypes, WindowOf
<1>2. /\ joined \in Seq(Kids) /\ Len(joined) = n + (a + b)
      /\ \A i \in 1..(n + (a + b)) :
           joined[i] = IF i <= n THEN walked[i] ELSE window[i - n]
  BY <1>1, ConcatProperties
<1> HIDE DEF joined
<1>3. \A i \in 1..n : joined[i] = walked[i]
  <2>1. \A i \in 1..n : i \in 1..(n + (a + b)) /\ i <= n BY <1>1
  <2> HIDE DEF n
  <2> QED BY <1>2, <2>1
<1>4. \A i \in 1..(a + b) : joined[n + i] = window[i]
  <2>1. \A i \in 1..(a + b) : n + i \in 1..(n + (a + b)) /\ ~(n + i <= n) /\ (n + i) - n = i
    BY <1>1
  <2> HIDE DEF n
  <2> QED BY <1>2, <2>1
<1>5. \A i \in 1..a : joined[n + i] = <<"page", windowStart + i>>
  <2>1. \A i \in 1..a : i \in 1..(a + b) OBVIOUS
  <2> HIDE DEF n
  <2> QED BY <1>4, <2>1 DEF WindowOf
<1>6. \A i \in 1..b : joined[n + a + i] = <<"folder", d + i>>
  <2>1. \A i \in 1..b : a + i \in 1..(a + b) /\ n + (a + i) = n + a + i BY <1>1
  <2>2. \A i \in 1..b : joined[n + (a + i)] = window[a + i] BY <1>4, <2>1
  <2> HIDE DEF n
  <2> QED BY <2>1, <2>2 DEF WindowOf
<1>7. /\ Range(joined) = {joined[i] : i \in 1..(n + (a + b))} /\ IsFiniteSet(Range(joined))
      /\ Range(walked) = {walked[i] : i \in 1..n} /\ IsFiniteSet(Range(walked))
  BY <1>1, <1>2, RangeFinite
<1>8. \A x : x \in Range(joined) <=> \/ x \in Range(walked)
                                     \/ \E i \in 1..a : x = <<"page", windowStart + i>>
                                     \/ \E i \in 1..b : x = <<"folder", d + i>>
  <2> HIDE DEF n
  <2>1. ASSUME NEW x \in Range(joined)
        PROVE  \/ x \in Range(walked)
               \/ \E i \in 1..a : x = <<"page", windowStart + i>>
               \/ \E i \in 1..b : x = <<"folder", d + i>>
    <3>1. PICK i \in 1..(n + (a + b)) : x = joined[i] BY <1>7
    <3>2. CASE i <= n
      <4>1. i \in 1..n BY <3>2
      <4> QED BY <1>3, <1>7, <3>1, <4>1
    <3>3. CASE i > n /\ i <= n + a
      <4>1. i - n \in 1..a /\ n + (i - n) = i BY <1>1, <3>3
      <4> QED BY <1>5, <3>1, <4>1
    <3>4. CASE i > n + a
      <4>1. i - n - a \in 1..b /\ n + a + (i - n - a) = i BY <1>1, <3>4
      <4> QED BY <1>6, <3>1, <4>1
    <3> QED BY <1>1, <3>2, <3>3, <3>4
  <2>2. \A i \in 1..n : i \in 1..(n + (a + b)) BY <1>1
  <2>3. \A i \in 1..a : n + i \in 1..(n + (a + b)) BY <1>1
  <2>4. \A i \in 1..b : n + a + i \in 1..(n + (a + b)) BY <1>1
  <2>5. Range(walked) \subseteq Range(joined) BY <1>3, <1>7, <2>2
  <2>6. \A i \in 1..a : <<"page", windowStart + i>> \in Range(joined) BY <1>5, <1>7, <2>3
  <2>7. \A i \in 1..b : <<"folder", d + i>> \in Range(joined) BY <1>6, <1>7, <2>4
  <2> QED BY <2>1, <2>5, <2>6, <2>7
<1>9. \A p \in Nat : <<"page", p>> \in Range(joined) => p <= windowStart + a
  <2> SUFFICES ASSUME NEW p \in Nat, <<"page", p>> \in Range(joined)
               PROVE  p <= windowStart + a
    OBVIOUS
  <2>1. CASE <<"page", p>> \in Range(walked) BY <1>1, <2>1
  <2>2. CASE \E i \in 1..a : <<"page", p>> = <<"page", windowStart + i>> BY <1>1, <2>2
  <2>3. ASSUME NEW i \in 1..b, <<"page", p>> = <<"folder", d + i>> PROVE FALSE BY <2>3
  <2> QED BY <1>8, <2>1, <2>2, <2>3
<1>10. \A k \in Nat : <<"folder", k>> \in Range(joined) <=> k \in 1..g
  <2> SUFFICES ASSUME NEW k \in Nat
               PROVE  <<"folder", k>> \in Range(joined) <=> k \in 1..g
    OBVIOUS
  <2>1. <<"folder", k>> \in Range(joined) <=> k \in 1..f \/ \E i \in 1..b : k = d + i
    <3>0. <<"folder", k>> \in Range(walked) <=> k \in 1..f OBVIOUS
    <3>1. \A i \in 1..a : <<"folder", k>> # <<"page", windowStart + i>> OBVIOUS
    <3>2. \A i \in 1..b : <<"folder", k>> = <<"folder", d + i>> <=> k = d + i OBVIOUS
    <3> QED BY ONLY <1>8, <3>0, <3>1, <3>2
  <2>2. (\E i \in 1..b : k = d + i) <=> k > d /\ k <= d + b
    <3>1. k > d /\ k <= d + b => k - d \in 1..b /\ k = d + (k - d) OBVIOUS
    <3> QED BY <3>1
  <2>3. k \in 1..f \/ (k > d /\ k <= d + b) <=> k \in 1..g OBVIOUS
  <2> QED BY <2>1, <2>2, <2>3
<1> DEFINE P == Range(Children("page", windowStart, a))
           Q == Range(Children("folder", f, g - f))
<1>11. g \in Nat /\ g - f \in Nat /\ g >= f OBVIOUS
<1>12. /\ IsFiniteSet(P) /\ Cardinality(P) = a
       /\ \A x : x \in P <=> \E i \in 1..a : x = <<"page", windowStart + i>>
  BY <1>1, ChildrenFacts
<1>13. /\ IsFiniteSet(Q) /\ Cardinality(Q) = g - f
       /\ \A x : x \in Q <=> \E i \in 1..(g - f) : x = <<"folder", f + i>>
  BY <1>11, ChildrenFacts
<1> HIDE DEF P, Q
<1>14. Range(walked) \cap P = {}
  <2> SUFFICES ASSUME NEW x \in Range(walked), x \in P PROVE FALSE OBVIOUS
  <2>1. PICK i \in 1..a : x = <<"page", windowStart + i>> BY <1>12
  <2>2. windowStart + i \in Nat /\ windowStart + i > windowStart BY <1>1
  <2>3. <<"page", windowStart + i>> \in Range(walked) BY <2>1
  <2>4. windowStart + i <= windowStart
    BY ONLY <2>2, <2>3, \A p \in Nat : <<"page", p>> \in Range(walked) => p <= windowStart
  <2> QED BY ONLY <1>1, <2>2, <2>4
<1>15. (Range(walked) \cup P) \cap Q = {}
  <2> SUFFICES ASSUME NEW x \in Range(walked) \cup P, x \in Q PROVE FALSE OBVIOUS
  <2>1. PICK i \in 1..(g - f) : x = <<"folder", f + i>> BY <1>13
  <2>2. f + i \in Nat /\ f + i \notin 1..f OBVIOUS
  <2>3. x \notin Range(walked) BY <2>1, <2>2
  <2>4. x \notin P BY <1>12, <2>1
  <2> QED BY <2>3, <2>4
<1>16. (Range(walked) \cup P) \cup Q \subseteq Range(joined)
  <2>1. P \subseteq Range(joined) BY <1>8, <1>12
  <2>2. Q \subseteq Range(joined)
    <3> SUFFICES ASSUME NEW x \in Q PROVE x \in Range(joined) OBVIOUS
    <3>1. PICK i \in 1..(g - f) : x = <<"folder", f + i>> BY <1>13
    <3>2. f + i \in Nat /\ f + i \in 1..g BY <1>11
    <3> QED BY <1>10, <3>1, <3>2
  <2> QED BY <1>8, <2>1, <2>2
<1>17. /\ IsFiniteSet(Range(walked) \cup P)
       /\ Cardinality(Range(walked) \cup P) = Cardinality(Range(walked)) + a
  <2>1. Cardinality(Range(walked) \cup P)
          = Cardinality(Range(walked)) + Cardinality(P) - Cardinality(Range(walked) \cap P)
    BY <1>7, <1>12, FS_Union
  <2>2. Cardinality(Range(walked) \cap P) = 0 BY <1>14, FS_EmptySet
  <2>3. Cardinality(Range(walked)) \in Nat BY <1>7, FS_CardinalityType
  <2>4. IsFiniteSet(Range(walked) \cup P) BY <1>7, <1>12, FS_Union
  <2> QED BY ONLY <1>12, <2>1, <2>2, <2>3, <2>4, a \in Nat
<1>18. /\ IsFiniteSet((Range(walked) \cup P) \cup Q)
       /\ Cardinality((Range(walked) \cup P) \cup Q) = Cardinality(Range(walked)) + a + (g - f)
  <2>1. Cardinality((Range(walked) \cup P) \cup Q)
          = Cardinality(Range(walked) \cup P) + Cardinality(Q)
            - Cardinality((Range(walked) \cup P) \cap Q)
    BY <1>13, <1>17, FS_Union
  <2>2. Cardinality((Range(walked) \cup P) \cap Q) = 0 BY <1>15, FS_EmptySet
  <2>3. Cardinality(Range(walked)) \in Nat BY <1>7, FS_CardinalityType
  <2>4. IsFiniteSet((Range(walked) \cup P) \cup Q) BY <1>13, <1>17, FS_Union
  <2> QED BY ONLY <1>11, <1>13, <1>17, <2>1, <2>2, <2>3, <2>4, a \in Nat
<1>19. Cardinality(Range(joined)) >= Cardinality(Range(walked)) + a + (g - f)
  <2>1. (Range(walked) \cup P) \cup Q \in SUBSET Range(joined) BY <1>16
  <2>2. Cardinality((Range(walked) \cup P) \cup Q) <= Cardinality(Range(joined))
    BY <1>7, <2>1, FS_Subset, Zenon
  <2>3. Cardinality(Range(joined)) \in Nat /\ Cardinality(Range(walked)) \in Nat
    BY <1>7, FS_CardinalityType
  <2> QED BY ONLY <1>11, <1>18, <2>2, <2>3, a \in Nat, f \in Nat
<1>20. Cardinality(Range(joined)) \in Nat /\ Cardinality(Range(walked)) \in Nat
  BY <1>7, FS_CardinalityType
<1>21. /\ Range(walked) \subseteq Range(joined)
       /\ \A i \in 1..a : <<"page", windowStart + i>> \in Range(joined)
  BY <1>8
<1>22. JoinedTo(joined, f, a, d, b, g)
  BY <1>2, <1>3, <1>5, <1>6, <1>9, <1>10, <1>19, <1>20, <1>21 DEF JoinedTo
<1> QED BY <1>22 DEF joined

\* What a window is, where the windows before it ended having taken account of e pages,
\* and it takes account of e2: its a pages, and its b folders behind the first d.
Fits(e, e2, a, d, b) ==
  /\ e <= e2 /\ e2 <= pages /\ e2 <= windowStart + windowSize
  /\ PagesAtFirst <= windowStart + a \/ a = windowSize
  /\ \/ /\ includeFolders /\ PagesAtFirst <= e2
        /\ a = Minus(e2, windowStart) /\ a < windowSize
        /\ d = Minus(windowStart, e2) /\ b = Smaller(Minus(folders, d), windowSize - a)
     \/ a = windowSize /\ b = 0 /\ e2 = windowStart + windowSize
     \/ /\ ~includeFolders /\ b = 0 /\ a < windowSize /\ e2 = e
        /\ a > 0 => windowStart + a <= pages

\* A window that fits is joined to the ones before it.
LEMMA JoinedOn ==
  ASSUME ChildrenTypes, NEW e \in 0..windowStart, NEW f \in 0..folders, Joined(e, f),
         NEW e2 \in Nat, NEW a \in Nat, NEW d \in Nat, NEW b \in Nat,
         Fits(e, e2, a, d, b), WindowOf(window, a, d, b),
         UNCHANGED given, walked' = walked \o window,
         windowStart' = windowStart + windowSize
  PROVE  \E e3 \in 0..windowStart', f3 \in 0..folders' : Joined(e3, f3)'
<1> DEFINE g == IF b > 0 /\ d + b > f THEN d + b ELSE f
           n == Len(walked)
           c == Cardinality(Range(walked))
           h == Cardinality(Range(walked'))
<1>1. /\ windowStart \in Nat /\ windowSize \in Nat \ {0} /\ pages \in Nat /\ folders \in Nat
      /\ created \in Nat /\ PagesAtFirst \in Nat /\ created = pages - PagesAtFirst
      /\ n \in Nat /\ e \in Nat /\ f \in Nat /\ g \in Nat /\ e <= windowStart /\ f <= folders
  BY ChildrenAssumption DEF ChildrenTypes, PagesAtFirst
<1>2. /\ e <= pages /\ (f > 0 => PagesAtFirst <= e /\ includeFolders)
      /\ \A p \in Nat : <<"page", p>> \in Range(walked) => p <= windowStart
      /\ \A p \in 1..PagesAtFirst : p <= windowStart => <<"page", p>> \in Range(walked)
      /\ \A k \in Nat : <<"folder", k>> \in Range(walked) <=> k \in 1..f
      /\ includeFolders => Smaller(folders, windowStart - e) <= f
      /\ n + Minus(f, windowStart - e) <= c + Minus(e, PagesAtFirst)
      /\ created = 0 =>
           /\ n = Smaller(windowStart, Total)
           /\ \A i \in 1..n : walked[i] = Child(i)
  BY DEF Joined
<1>3. b > 0 => d <= f /\ includeFolders
  BY <1>1, <1>2 DEF Fits, Smaller, Minus
<1>4. /\ Len(walked') = n + (a + b)
      /\ \A i \in 1..n : walked'[i] = walked[i]
      /\ \A i \in 1..a : walked'[n + i] = <<"page", windowStart + i>>
      /\ \A i \in 1..b : walked'[n + a + i] = <<"folder", d + i>>
      /\ Range(walked) \subseteq Range(walked')
      /\ \A i \in 1..a : <<"page", windowStart + i>> \in Range(walked')
      /\ \A p \in Nat : <<"page", p>> \in Range(walked') => p <= windowStart + a
      /\ \A k \in Nat : <<"folder", k>> \in Range(walked') <=> k \in 1..g
      /\ c \in Nat /\ h \in Nat /\ h >= c + a + (g - f)
  <2> HIDE DEF n, c, h
  <2>1. g = IF b > 0 /\ d + b > f THEN d + b ELSE f OBVIOUS
  <2> HIDE DEF g
  <2>2. f \in Nat /\ (b > 0 => d <= f) BY <1>1, <1>3
  <2>3. /\ \A p \in Nat : <<"page", p>> \in Range(walked) => p <= windowStart
        /\ \A k \in Nat : <<"folder", k>> \in Range(walked) <=> k \in 1..f
    BY <1>2
  <2>4. JoinedTo(walked \o window, f, a, d, b, g) BY <2>1, <2>2, <2>3, WindowRange
  <2>5. JoinedTo(walked', f, a, d, b, g) BY <2>4
  <2> QED BY <2>5 DEF JoinedTo, n, c, h
<1>5. UNCHANGED <<pages, folders, created, windowSize, includeFolders>> BY DEF given
<1>6. PagesAtFirst' = PagesAtFirst /\ Total' = Total /\ \A i : Child(i)' = Child(i)
  BY <1>5 DEF PagesAtFirst, Total, Child
<1>7. g <= folders
  <2>1. b > 0 => d + b <= folders BY <1>1 DEF Fits, Smaller, Minus
  <2> QED BY <1>1, <2>1
<1> DEFINE to == windowStart + windowSize
<1>8. to \in Nat /\ e2 <= to /\ e2 <= pages BY <1>1 DEF Fits
<1>9. g > 0 => PagesAtFirst <= e2 /\ includeFolders
  BY <1>1, <1>2, <1>3 DEF Fits
<1>10. \A p \in Nat : <<"page", p>> \in Range(walked') => p <= to
  <2>1. a <= windowSize BY <1>1 DEF Fits
  <2> HIDE DEF g, n, c, h
  <2>2. \A p \in Nat : p <= windowStart + a => p <= to BY <1>1, <2>1
  <2> HIDE DEF to
  <2> QED BY <1>4, <2>2
<1>11. \A p \in 1..PagesAtFirst : p <= to => <<"page", p>> \in Range(walked')
  <2> HIDE DEF g, n, c, h
  <2> SUFFICES ASSUME NEW p \in 1..PagesAtFirst, p <= to PROVE <<"page", p>> \in Range(walked')
    OBVIOUS
  <2>1. CASE p <= windowStart BY <1>2, <1>4, <2>1
  <2>2. CASE p > windowStart
    <3>1. p - windowStart \in 1..a /\ windowStart + (p - windowStart) = p
      BY <1>1, <2>2 DEF Fits
    <3> QED BY <1>4, <3>1
  <2> QED BY <1>1, <2>1, <2>2
<1>12. includeFolders => Smaller(folders, to - e2) <= g
  BY <1>1, <1>2, <1>3 DEF Fits, Smaller, Minus
<1>13. Len(walked') + Minus(g, to - e2) <= h + Minus(e2, PagesAtFirst)
  <2> HIDE DEF n, c, h
  <2>1. h >= c + a + (g - f) /\ c \in Nat /\ h \in Nat BY <1>4
  <2>2. Len(walked') = n + (a + b) BY <1>4
  <2>3. (f + b) - g + Minus(g, to - e2) + Minus(e, PagesAtFirst)
          <= Minus(f, windowStart - e) + Minus(e2, PagesAtFirst)
    BY <1>1, <1>2, <1>3 DEF Fits, Smaller, Minus
  <2>4. Minus(g, to - e2) \in Int /\ Minus(e, PagesAtFirst) \in Int
        /\ Minus(f, windowStart - e) \in Int /\ Minus(e2, PagesAtFirst) \in Int
    BY <1>1 DEF Minus
  <2>5. n + Minus(f, windowStart - e) <= c + Minus(e, PagesAtFirst) BY <1>2
  <2>6. g \in Int /\ f \in Int /\ n \in Int /\ a \in Int /\ b \in Int BY <1>1
  <2> HIDE DEF g, to
  <2> QED BY ONLY <2>1, <2>2, <2>3, <2>4, <2>5, <2>6
<1>14. ASSUME created = 0
       PROVE  /\ Len(walked') = Smaller(to, Total)
              /\ \A i \in 1..Len(walked') : walked'[i] = Child(i)
  <2> HIDE DEF c, h
  <2>1. PagesAtFirst = pages BY <1>1, <1>14
  <2>2. n = Smaller(windowStart, Total) /\ \A i \in 1..n : walked[i] = Child(i)
    BY <1>2, <1>14
  <2> HIDE DEF n
  <2>3. n + a + b = Smaller(to, Total)
    BY <1>1, <2>1, <2>2 DEF Fits, Smaller, Minus, Total
  <2>4. Len(walked') = n + a + b BY <1>1, <1>4
  <2>5. a > 0 => n = windowStart /\ windowStart + a <= pages
    BY <1>1, <2>1, <2>2 DEF Fits, Smaller, Minus, Total
  <2>6. b > 0 => d + pages = n + a
    BY <1>1, <2>1, <2>2 DEF Fits, Smaller, Minus, Total
  <2>7. ASSUME NEW i \in 1..(n + a + b) PROVE walked'[i] = Child(i)
    <3> HIDE DEF g, to
    <3>1. CASE i <= n
      <4>1. i \in 1..n BY <3>1
      <4> QED BY <1>4, <2>2, <4>1
    <3>2. CASE i > n /\ i <= n + a
      <4>1. i - n \in 1..a /\ n + (i - n) = i BY <1>1, <3>2
      <4>2. walked'[i] = <<"page", windowStart + (i - n)>> BY <1>4, <4>1
      <4>3. windowStart + (i - n) = i /\ i <= pages BY <1>1, <2>5, <3>2
      <4> QED BY <4>2, <4>3 DEF Child
    <3>3. CASE i > n + a
      <4>1. i - n - a \in 1..b /\ n + a + (i - n - a) = i BY <1>1, <3>3
      <4>2. walked'[i] = <<"folder", d + (i - n - a)>> BY <1>4, <4>1
      <4>3. d + (i - n - a) = i - pages /\ ~(i <= pages) BY <1>1, <2>6, <3>3
      <4> QED BY <4>2, <4>3 DEF Child
    <3>4. i \in Int /\ n \in Int /\ a \in Int BY <1>1
    <3> QED BY ONLY <3>1, <3>2, <3>3, <3>4
  <2> QED BY <2>3, <2>4, <2>7
<1>15. Joined(e2, g)'
  <2> HIDE DEF g, n, to
  <2>1. to = windowStart' BY DEF to
  <2> QED BY <1>4, <1>5, <1>6, <1>8, <1>9, <1>10, <1>11, <1>12, <1>13, <1>14, <2>1 DEF Joined, h
<1> QED
  <2> HIDE DEF g, n, c, h
  <2>1. e2 \in 0..windowStart' /\ g \in 0..folders' BY <1>1, <1>5, <1>7, <1>8
  <2> QED BY <1>15, <2>1

LEMMA ChildrenStarts == ChildrenInit => ChildrenInv
<1> SUFFICES ASSUME ChildrenInit PROVE ChildrenInv OBVIOUS
<1> USE DEF ChildrenInit
<1>1. ChildrenTypes
  <2>1. pages \in Nat /\ folders \in Nat BY ChildrenAssumption
  <2>2. <<>> \in Seq(Kids) OBVIOUS
  <2> QED BY <2>1, <2>2 DEF ChildrenTypes
<1> DEFINE none == <<>>
<1>2. none \in Seq(Kids) /\ Len(none) = 0 OBVIOUS
<1>3. walked = none OBVIOUS
<1> HIDE DEF none
<1>4. Range(walked) = {}
  <2>1. Range(none) = {none[i] : i \in 1..Len(none)} BY <1>2, RangeFinite
  <2> QED BY <1>2, <1>3, <2>1
<1>5. Cardinality({}) = 0 BY FS_EmptySet
<1>6. Joined(0, 0)
  <2>1. pages \in Nat /\ folders \in Nat /\ windowStart = 0 /\ created = 0 /\ PagesAtFirst = pages
    BY ChildrenAssumption DEF PagesAtFirst
  <2>2. Total \in Nat BY <2>1 DEF Total
  <2> QED BY <1>2, <1>3, <1>4, <1>5, <2>1, <2>2 DEF Joined, Smaller, Minus
<1>7. Reading(0) BY DEF Reading
<1>8. 0 \in 0..windowStart /\ 0 \in 0..folders BY <1>1 DEF ChildrenTypes
<1> QED BY <1>1, <1>6, <1>7, <1>8 DEF ChildrenInv

\* The windows before this one are what they were.
LEMMA SameJoined ==
  ASSUME NEW e, NEW f, Joined(e, f), UNCHANGED <<given, windowStart, walked>>
  PROVE  Joined(e, f)'
<1>1. UNCHANGED <<pages, folders, created, windowSize, includeFolders>> BY DEF given
<1>2. PagesAtFirst' = PagesAtFirst /\ Total' = Total /\ \A i : Child(i)' = Child(i)
  BY <1>1 DEF PagesAtFirst, Total, Child
<1> QED BY <1>1, <1>2 DEF Joined

\* A step within a window.
LEMMA WithinWindow ==
  ASSUME NEW e \in 0..windowStart, NEW f \in 0..folders, Joined(e, f),
         UNCHANGED <<given, windowStart, walked>>, ChildrenTypes', Reading(e)'
  PROVE  ChildrenInv'
<1>1. Joined(e, f)' BY SameJoined
<1>2. e \in 0..windowStart' /\ f \in 0..folders' BY DEF given
<1> QED BY <1>1, <1>2 DEF ChildrenInv

\* What the constants and variables are, as arithmetic needs it.
ChildrenNumbers ==
  /\ pages \in Nat /\ folders \in Nat /\ created \in Nat
  /\ PagesAtFirst \in Nat /\ PagesAtFirst <= pages
  /\ windowSize \in Nat /\ windowSize > 0 /\ windowStart \in Nat
  /\ pageResults \in Nat /\ pageStart \in Nat /\ counted \in Nat /\ countStart \in Nat
  /\ requests \in Nat
  /\ ServerCap \in Nat /\ ServerCap > 0 /\ windowSize <= ServerCap
  /\ RecountLimit \in Nat /\ RecountLimit > 0

LEMMA NumbersFacts == ASSUME ChildrenTypes, AnswersInFull PROVE ChildrenNumbers
BY ChildrenAssumption, ServerAssumption
   DEF ChildrenTypes, AnswersInFull, ChildrenNumbers, PagesAtFirst

LEMMA AskPagesInv ==
  ASSUME ChildrenInv, AnswersInFull, AskPages
  PROVE  ChildrenInv'
<1>1. PICK e \in 0..windowStart, f \in 0..folders : Joined(e, f) /\ Reading(e)
  BY DEF ChildrenInv
<1>2. ChildrenNumbers BY NumbersFacts DEF ChildrenInv
<1> DEFINE n == InAnswer(pages, windowStart, windowSize)
<1>3. /\ n \in Nat /\ n <= windowSize /\ (n > 0 => windowStart + n <= pages)
      /\ n < windowSize => pages <= windowStart + n
  BY <1>2 DEF ChildrenNumbers, InAnswer, Smaller, Minus
<1>4. /\ pageResults' = n /\ window' = Children("page", windowStart, n)
      /\ step' = IF ~includeFolders \/ n = windowSize THEN "window"
                 ELSE IF n = 0 /\ windowStart > 0 THEN "recount" ELSE "folders"
      /\ pageStart' = windowStart /\ counted' = 0 /\ countStart' = 0 /\ requests' = 0
      /\ folderQuery' = "none" /\ UNCHANGED <<given, windowStart, walked>>
  BY DEF AskPages
<1> HIDE DEF n
<1>5. UNCHANGED <<pages, folders, created, windowSize, includeFolders, PagesAtFirst>>
  BY <1>4 DEF given, PagesAtFirst
<1>6. ChildrenTypes'
  <2>1. Children("page", windowStart, n) \in Seq(Kids)
    BY <1>2, <1>3, ChildrenFacts DEF ChildrenNumbers
  <2> QED BY <1>2, <1>3, <1>4, <1>5, <2>1 DEF ChildrenInv, ChildrenTypes, ChildrenNumbers
<1>7. n < windowSize => PagesRead'
  <2>1. n < windowSize => PagesAtFirst <= windowStart + n BY <1>2, <1>3 DEF ChildrenNumbers
  <2> QED BY <1>3, <1>4, <1>5, <2>1 DEF PagesRead
<1>8. step' = "folders" => AccountedFor(e)'
  <2>1. Accounted' = IF n = 0 /\ windowStart > 0 THEN Smaller(0, windowStart) ELSE windowStart + n
    BY <1>4 DEF Accounted
  <2>2. step' = "folders" =>
          Accounted' = windowStart + n /\ n < windowSize /\ (n = 0 => windowStart = 0)
    BY <1>2, <1>3, <1>4, <2>1 DEF ChildrenNumbers
  <2> HIDE DEF Accounted
  <2>3. e \in Nat /\ e <= windowStart BY <1>2 DEF ChildrenNumbers
  <2> QED BY <1>2, <1>3, <1>5, <2>2, <2>3 DEF AccountedFor, ChildrenNumbers
<1>9. Reading(e)'
  <2>1. n = windowSize => /\ pageResults' = windowSize' /\ windowStart' + windowSize' <= pages'
                         /\ window' = Children("page", windowStart', windowSize')
    BY <1>2, <1>3, <1>4, <1>5 DEF ChildrenNumbers
  <2>2. n < windowSize \/ n = windowSize BY <1>2, <1>3 DEF ChildrenNumbers
  <2>3. step' = "recount" => /\ n < windowSize /\ includeFolders' /\ pageResults' = 0
                             /\ windowStart' > 0 /\ counted' = countStart' /\ counted' <= pages'
    BY <1>2, <1>4, <1>5, <2>2 DEF ChildrenNumbers
  <2>4. step' = "folders" => n < windowSize /\ includeFolders' BY <1>4, <1>5, <2>2
  <2>5. step' = "window" => n = windowSize \/ n < windowSize BY <2>2
  <2> QED BY <1>7, <1>8, <2>1, <2>3, <2>4, <2>5, Zenon DEF Reading
<1> QED BY <1>1, <1>4, <1>6, <1>9, WithinWindow

LEMMA RecountInv ==
  ASSUME ChildrenInv, AnswersInFull, Recount \/ RecountDone
  PROVE  ChildrenInv'
<1>1. PICK e \in 0..windowStart, f \in 0..folders : Joined(e, f) /\ Reading(e)
  BY DEF ChildrenInv
<1>2. ChildrenNumbers BY NumbersFacts DEF ChildrenInv
<1>3. /\ step = "recount"
      /\ UNCHANGED <<given, windowStart, pageStart, pageResults, window, folderQuery, walked>>
  BY DEF Recount, RecountDone
<1>4. UNCHANGED <<pages, folders, created, windowSize, includeFolders, PagesAtFirst>>
  BY <1>3 DEF given, PagesAtFirst
<1>5. /\ PagesRead /\ includeFolders /\ pageResults = 0 /\ windowStart > 0
      /\ counted = countStart /\ counted <= pages /\ PagesAtFirst <= windowStart
  BY <1>1, <1>2, <1>3 DEF Reading, PagesRead, ChildrenNumbers
<1>6. PagesRead' BY <1>3, <1>4, <1>5 DEF PagesRead
<1>7. e \in Nat /\ e <= windowStart /\ e <= pages BY <1>1, <1>2 DEF ChildrenNumbers, Joined
<1>8. /\ counted' \in Nat /\ countStart' \in Nat /\ requests' \in Nat /\ counted' <= pages
      /\ \/ step' = "recount" /\ counted' = countStart'
         \/ step' = "folders" /\ (counted' >= windowStart \/ counted' = pages)
  <2>1. CASE RecountDone
    BY <1>2, <1>5, <2>1 DEF RecountDone, ChildrenNumbers
  <2>2. CASE Recount
    <3> DEFINE size == Smaller(RecountLimit, windowStart - counted)
               n == InAnswer(pages, countStart, size)
    <3>1. counted < windowStart BY <2>2 DEF Recount
    <3>2. size \in Nat /\ size > 0 BY <1>2, <3>1 DEF ChildrenNumbers, Smaller
    <3>3. /\ n \in Nat /\ countStart + n <= pages
          /\ n = 0 => countStart = pages
      <4> HIDE DEF size
      <4> QED BY <1>2, <1>5, <3>2 DEF ChildrenNumbers, InAnswer, Smaller, Minus
    <3>4. /\ counted' = counted + n /\ requests' = requests + 1
          /\ \E more \in IF countStart + n >= pages THEN {FALSE, n = size} ELSE {TRUE} :
               IF n = 0 \/ ~more
                 THEN step' = "folders" /\ UNCHANGED countStart
                 ELSE countStart' = countStart + n /\ UNCHANGED step
      BY <2>2 DEF Recount
    <3> HIDE DEF n, size
    <3>5. \/ step' = "folders" /\ countStart' = countStart /\ (n = 0 \/ countStart + n >= pages)
          \/ step' = step /\ countStart' = countStart + n
      BY <3>4
    <3> QED BY <1>2, <1>3, <1>5, <3>3, <3>4, <3>5 DEF ChildrenNumbers
  <2> QED BY <2>1, <2>2
<1>9. ChildrenTypes'
  BY <1>3, <1>4, <1>8 DEF ChildrenInv, ChildrenTypes
<1>10. step' = "folders" => AccountedFor(e)'
  <2>1. Accounted' = Smaller(counted', windowStart) BY <1>3, <1>5 DEF Accounted
  <2> HIDE DEF Accounted
  <2> QED BY <1>2, <1>4, <1>5, <1>7, <1>8, <2>1 DEF AccountedFor, Smaller, ChildrenNumbers
<1>11. Reading(e)' BY <1>3, <1>4, <1>5, <1>6, <1>8, <1>10 DEF Reading
<1> QED BY <1>1, <1>3, <1>9, <1>11, WithinWindow

\* The folders a window asks for begin where the windows before it would have ended, had
\* they seen the pages it takes account of.
LEMMA FolderStartFacts ==
  ASSUME ChildrenNumbers, pageStart = windowStart
  PROVE  /\ FolderStart = Minus(windowStart, Accounted) /\ FolderStart \in Nat
         /\ Accounted \in Nat /\ pageResults = Minus(Accounted, windowStart)
         /\ Accounted <= windowStart + pageResults
BY DEF FolderStart, Accounted, Smaller, Minus, ChildrenNumbers

LEMMA AskFoldersInv ==
  ASSUME ChildrenInv, AnswersInFull, AskFolders \/ FoldersFail \/ Fail
  PROVE  ChildrenInv'
<1>1. PICK e \in 0..windowStart, f \in 0..folders : Joined(e, f) /\ Reading(e)
  BY DEF ChildrenInv
<1>2. ChildrenNumbers BY NumbersFacts DEF ChildrenInv
<1>3. UNCHANGED <<given, windowStart, pageStart, pageResults, counted, countStart, requests,
                  walked>>
  BY DEF AskFolders, FoldersFail, Fail
<1>4. UNCHANGED <<pages, folders, created, windowSize, includeFolders, PagesAtFirst,
                  FolderStart, Remaining, Accounted>>
  BY <1>3 DEF given, PagesAtFirst, FolderStart, Remaining, Accounted
<1>5. CASE Fail
  <2>1. step' = "stopped" /\ window' = window BY <1>5 DEF Fail
  <2>2. ChildrenTypes' BY <1>3, <1>4, <2>1 DEF ChildrenInv, ChildrenTypes
  <2>3. Reading(e)' BY <2>1 DEF Reading
  <2> QED BY <1>1, <1>3, <2>2, <2>3, WithinWindow
<1>6. CASE FoldersFail
  <2>1. step = "folders" /\ step' = "window" /\ UNCHANGED <<window, folderQuery>>
    BY <1>6 DEF FoldersFail
  <2>2. ChildrenTypes' BY <1>3, <1>4, <2>1 DEF ChildrenInv, ChildrenTypes
  <2>3. PagesRead /\ includeFolders BY <1>1, <2>1 DEF Reading
  <2>4. Reading(e)'
    BY <1>3, <1>4, <2>1, <2>3 DEF Reading, PagesRead
  <2> QED BY <1>1, <1>3, <2>2, <2>4, WithinWindow
<1>7. CASE AskFolders
  <2> DEFINE b == InAnswer(folders, FolderStart, Remaining)
  <2>1. /\ step = "folders" /\ step' = "window"
        /\ window' = window \o Children("folder", FolderStart, b)
    BY <1>7 DEF AskFolders
  <2>2. PagesRead /\ includeFolders /\ AccountedFor(e) BY <1>1, <2>1 DEF Reading
  <2>3. FolderStart \in Nat BY <1>2, <2>2, FolderStartFacts DEF PagesRead
  <2>4. b \in Nat
    BY <1>2, <2>2, <2>3 DEF InAnswer, Smaller, Minus, Remaining, PagesRead, ChildrenNumbers
  <2> HIDE DEF b
  <2>5. ChildrenTypes'
    <3>1. Children("folder", FolderStart, b) \in Seq(Kids) BY <2>3, <2>4, ChildrenFacts
    <3>2. window' \in Seq(Kids) BY <2>1, <3>1 DEF ChildrenInv, ChildrenTypes
    <3> QED BY <1>3, <1>4, <2>1, <3>2 DEF ChildrenInv, ChildrenTypes
  <2>6. AccountedFor(e)' BY <1>4, <2>2 DEF AccountedFor
  <2>7. window' = Children("page", windowStart, pageResults) \o Children("folder", FolderStart, b)
    BY <2>1, <2>2 DEF PagesRead
  <2>8. b = InAnswer(folders', FolderStart', Remaining') BY <1>4 DEF b
  <2>9. Reading(e)'
    <3>1. /\ pageStart' = windowStart' /\ pageResults' < windowSize' /\ includeFolders'
          /\ window' = Children("page", windowStart', pageResults')
                         \o Children("folder", FolderStart',
                                     InAnswer(folders', FolderStart', Remaining'))
      BY <1>3, <1>4, <2>2, <2>7, <2>8 DEF PagesRead
    <3> QED BY <2>1, <2>6, <3>1 DEF Reading
  <2> QED BY <1>1, <1>3, <2>5, <2>9, WithinWindow
<1> QED BY <1>5, <1>6, <1>7

LEMMA NextWindowInv ==
  ASSUME ChildrenInv, AnswersInFull, NextWindow
  PROVE  ChildrenInv'
<1>1. PICK e \in 0..windowStart, f \in 0..folders : Joined(e, f) /\ Reading(e)
  BY DEF ChildrenInv
<1>2. ChildrenNumbers /\ ChildrenTypes BY NumbersFacts DEF ChildrenInv
<1>3. /\ step = "window" /\ UNCHANGED given
      /\ UNCHANGED <<pageStart, pageResults, counted, countStart, requests, window, folderQuery>>
  BY DEF NextWindow
<1>4. UNCHANGED <<pages, folders, created, windowSize, includeFolders>> BY <1>3 DEF given
<1>5. CASE step' = "stopped"
  <2>1. UNCHANGED <<walked, windowStart>> BY <1>5 DEF NextWindow
  <2>2. ChildrenTypes' BY <1>2, <1>3, <1>4, <1>5, <2>1 DEF ChildrenTypes
  <2>3. Reading(e)' BY <1>5 DEF Reading
  <2> QED BY <1>1, <1>3, <2>1, <2>2, <2>3, WithinWindow
<1>6. CASE step' # "stopped"
  <2>1. /\ walked' = walked \o window /\ windowStart' = windowStart + windowSize
        /\ step' = "pages" /\ (includeFolders /\ Remaining > 0 => folderQuery = "shown")
    BY <1>6 DEF NextWindow
  <2>2. e \in Nat /\ e <= windowStart /\ e <= pages BY <1>1, <1>2 DEF ChildrenNumbers, Joined
  <2>3. \E e3 \in 0..windowStart', f3 \in 0..folders' : Joined(e3, f3)'
    <3>1. CASE /\ pageResults = windowSize /\ windowStart + windowSize <= pages
               /\ window = Children("page", windowStart, windowSize)
      <4>1. WindowOf(window, windowSize, 0, 0)
        BY <1>2, <3>1, WindowParts DEF ChildrenNumbers
      <4>2. Fits(e, windowStart + windowSize, windowSize, 0, 0)
        BY <1>2, <2>2, <3>1 DEF Fits, ChildrenNumbers
      <4>3. windowStart + windowSize \in Nat /\ windowSize \in Nat BY <1>2 DEF ChildrenNumbers
      <4> QED BY <1>1, <1>2, <1>3, <2>1, <4>1, <4>2, <4>3, JoinedOn
    <3>2. CASE PagesRead /\ ~includeFolders
      <4>1. WindowOf(window, pageResults, 0, 0)
        BY <1>2, <3>2, WindowParts DEF PagesRead, ChildrenNumbers
      <4>2. Fits(e, e, pageResults, 0, 0)
        BY <1>2, <2>2, <3>2 DEF Fits, PagesRead, ChildrenNumbers
      <4>3. pageResults \in Nat BY <1>2 DEF ChildrenNumbers
      <4> QED BY <1>1, <1>2, <1>3, <2>1, <2>2, <4>1, <4>2, <4>3, JoinedOn
    <3>3. CASE PagesRead /\ includeFolders
      <4>1. Remaining > 0 BY <1>2, <3>3 DEF Remaining, PagesRead, ChildrenNumbers
      <4> QED BY <2>1, <3>3, <4>1 DEF PagesRead
    <3>4. CASE /\ pageStart = windowStart /\ pageResults < windowSize /\ includeFolders
               /\ AccountedFor(e)
               /\ window = Children("page", windowStart, pageResults)
                    \o Children("folder", FolderStart, InAnswer(folders, FolderStart, Remaining))
      <4> DEFINE b == InAnswer(folders, FolderStart, Remaining)
      <4>1. /\ FolderStart = Minus(windowStart, Accounted) /\ FolderStart \in Nat
            /\ Accounted \in Nat /\ pageResults = Minus(Accounted, windowStart)
            /\ Accounted <= windowStart + pageResults
        BY <1>2, <3>4, FolderStartFacts
      <4>2. b = Smaller(Minus(folders, FolderStart), windowSize - pageResults) /\ b \in Nat
        BY <1>2, <3>4, <4>1 DEF InAnswer, Smaller, Minus, Remaining, ChildrenNumbers
      <4> HIDE DEF b
      <4>3. WindowOf(window, pageResults, FolderStart, b)
        BY <1>2, <3>4, <4>1, <4>2, WindowParts DEF b, ChildrenNumbers
      <4>4. pageResults \in Nat BY <1>2 DEF ChildrenNumbers
      <4>5. Fits(e, Accounted, pageResults, FolderStart, b)
        BY <1>2, <3>4, <4>1, <4>2 DEF Fits, AccountedFor, ChildrenNumbers
      <4> QED BY <1>1, <1>2, <1>3, <2>1, <4>1, <4>2, <4>3, <4>4, <4>5, JoinedOn
    <3> QED BY <1>1, <1>3, <3>1, <3>2, <3>3, <3>4 DEF Reading
  <2>4. ChildrenTypes'
    <3>1. walked' \in Seq(Kids) /\ windowStart' \in Nat
      BY <1>2, <2>1 DEF ChildrenTypes, ChildrenNumbers
    <3> QED BY <1>2, <1>3, <1>4, <2>1, <3>1 DEF ChildrenTypes
  <2>5. \A x : Reading(x)' BY <2>1 DEF Reading
  <2> QED BY <2>3, <2>4, <2>5 DEF ChildrenInv
<1> QED BY <1>5, <1>6

LEMMA CreatePageInv ==
  ASSUME ChildrenInv, AnswersInFull, CreatePage
  PROVE  ChildrenInv'
<1>1. PICK e \in 0..windowStart, f \in 0..folders : Joined(e, f) /\ Reading(e)
  BY DEF ChildrenInv
<1>2. ChildrenNumbers /\ ChildrenTypes BY NumbersFacts DEF ChildrenInv
<1>3. /\ pages' = pages + 1 /\ created' = created + 1
      /\ UNCHANGED <<folders, windowSize, includeFolders, windowStart, step, pageStart,
                     pageResults, counted, countStart, requests, window, folderQuery, walked>>
  BY DEF CreatePage
<1>4. PagesAtFirst' = PagesAtFirst /\ pages' \in Nat /\ pages' > pages /\ created' # 0
  BY <1>2, <1>3 DEF PagesAtFirst, ChildrenNumbers
<1>5. ChildrenTypes' BY <1>2, <1>3 DEF ChildrenTypes
<1>6. Joined(e, f)'
  <2>1. e <= pages' BY <1>1, <1>2, <1>4 DEF Joined, ChildrenNumbers
  <2> QED BY <1>1, <1>3, <1>4, <2>1 DEF Joined
<1>7. UNCHANGED <<FolderStart, Remaining, Accounted>>
  BY <1>3 DEF FolderStart, Remaining, Accounted
<1>8. PagesRead => PagesRead' BY <1>2, <1>3, <1>4 DEF PagesRead, ChildrenNumbers
<1>9. AccountedFor(e) => AccountedFor(e)'
  <2>1. Accounted \in Nat BY <1>2 DEF Accounted, Smaller, ChildrenNumbers
  <2> QED BY <1>2, <1>4, <1>7, <2>1 DEF AccountedFor, ChildrenNumbers
<1>10. /\ counted <= pages => counted' <= pages'
       /\ windowStart + windowSize <= pages => windowStart' + windowSize' <= pages'
  BY <1>2, <1>3, <1>4 DEF ChildrenNumbers
<1>11. Reading(e)' BY <1>1, <1>3, <1>7, <1>8, <1>9, <1>10 DEF Reading
<1> QED BY <1>1, <1>3, <1>5, <1>6, <1>11 DEF ChildrenInv

LEMMA ChildrenStep ==
  ASSUME ChildrenInv, AnswersInFull, [ChildrenNext]_childrenVars
  PROVE  ChildrenInv'
<1>1. CASE UNCHANGED childrenVars
  <2>1. /\ UNCHANGED <<given, pages, folders, created, windowSize, includeFolders, windowStart>>
        /\ UNCHANGED <<step, pageStart, pageResults, counted, countStart, requests, window,
                       folderQuery, walked>>
    BY <1>1 DEF childrenVars, given
  <2>2. PICK e \in 0..windowStart, f \in 0..folders : Joined(e, f) /\ Reading(e)
    BY DEF ChildrenInv
  <2>3. ChildrenTypes' BY <2>1 DEF ChildrenInv, ChildrenTypes
  <2>4. UNCHANGED <<PagesAtFirst, FolderStart, Remaining, Accounted>>
    BY <2>1 DEF PagesAtFirst, FolderStart, Remaining, Accounted
  <2>5. PagesRead' = PagesRead /\ AccountedFor(e)' = AccountedFor(e)
    BY <2>1, <2>4 DEF PagesRead, AccountedFor
  <2>6. Reading(e)' BY <2>1, <2>2, <2>4, <2>5 DEF Reading
  <2> QED BY <2>1, <2>2, <2>3, <2>6, WithinWindow
<1> QED BY <1>1, AskPagesInv, RecountInv, AskFoldersInv, NextWindowInv, CreatePageInv
        DEF ChildrenNext, ChildrenCall

LEMMA ChildrenSafe == ASSUME ChildrenInv PROVE WindowsJoin
<1>1. PICK e \in 0..windowStart, f \in 0..folders : Joined(e, f)
  BY DEF ChildrenInv
<1>2. /\ pages \in Nat /\ folders \in Nat /\ created \in Nat /\ PagesAtFirst \in Nat
      /\ PagesAtFirst = pages - created /\ windowStart \in Nat /\ walked \in Seq(Kids)
  BY DEF ChildrenInv, ChildrenTypes, PagesAtFirst
<1>3. created = 0 => Len(walked) <= Total /\ \A i \in 1..Len(walked) : walked[i] = Child(i)
  <2>1. Total \in Nat BY <1>2 DEF Total
  <2> QED BY <1>1, <1>2, <2>1 DEF Joined, Smaller
<1>4. Range(walked) = {walked[i] : i \in 1..Len(walked)} /\ IsFiniteSet(Range(walked))
  BY <1>2, RangeFinite
<1>5. ASSUME NEW i \in 1..Len(walked), walked[i][1] = "folder"
      PROVE  /\ \A p \in 1..(pages - created) : <<"page", p>> \in Range(walked)
             /\ \A k \in 1..(walked[i][2] - 1) : <<"folder", k>> \in Range(walked)
  <2>1. walked[i] \in Kids BY <1>2, ElementOfSeq
  <2>2. PICK m \in Nat : walked[i] = <<"folder", m>> BY <1>5, <2>1 DEF Kids
  <2>3. m \in 1..f BY <1>1, <1>4, <2>2 DEF Joined
  <2>4. f > 0 /\ f \in Nat BY <1>2, <2>3
  <2>5. PagesAtFirst <= e /\ e <= windowStart BY <1>1, <1>2, <2>4 DEF Joined
  <2>6. \A p \in 1..PagesAtFirst : <<"page", p>> \in Range(walked)
    <3>1. \A p \in 1..PagesAtFirst : p <= windowStart BY <1>2, <2>5
    <3> QED BY <1>1, <3>1 DEF Joined
  <2>7. \A k \in 1..(m - 1) : <<"folder", k>> \in Range(walked)
    <3>1. \A k \in 1..(m - 1) : k \in Nat /\ k \in 1..f BY <2>3, <2>4
    <3> QED BY <1>1, <3>1 DEF Joined
  <2> QED BY <1>2, <2>2, <2>6, <2>7
<1>6. Repeats <= created
  <2>1. Cardinality(Range(walked)) \in Nat BY <1>4, FS_CardinalityType
  <2>2. Len(walked) + Minus(f, windowStart - e)
          <= Cardinality(Range(walked)) + Minus(e, PagesAtFirst) /\ e <= pages
    BY <1>1 DEF Joined
  <2>3. Minus(f, windowStart - e) \in Nat /\ Minus(e, PagesAtFirst) <= created
        /\ Minus(e, PagesAtFirst) \in Nat
    BY <1>1, <1>2, <2>2 DEF Minus
  <2>4. Len(walked) \in Nat BY <1>2
  <2> QED BY <1>2, <2>1, <2>2, <2>3, <2>4 DEF Repeats
<1> QED BY <1>3, <1>5, <1>6 DEF WindowsJoin

\* list_page_children, for every number of pages and folders, every window size and every
\* number of pages created meanwhile: the windows of a caller join to the list, if the
\* server puts as many children into an answer as a window asks for.  get_page_children
\* takes an answer with fewer for the end of the pages.
THEOREM WindowsTrue == ASSUME AnswersInFull PROVE ChildrenSpec => []WindowsJoin
<1> USE AnswersInFull
<1> QED BY ChildrenStarts, ChildrenStep, ChildrenSafe, PTL DEF ChildrenSpec

-----------------------------------------------------------------------------
(* The acceptance runner.                                                  *)

\* What the proofs need of a row: a guarded one calls its tool over stdio.
ProperRow(r) ==
    r.restricted = FALSE \/ (r.restricted = TRUE /\ r.transport = "stdio")

\* The rows of each mode: there is one at least, and every one is proper.
LEMMA RowsFacts ==
  ASSUME command \in AcceptanceCommands
  PROVE  /\ Len(Acceptance!Rows) \in Nat \ {0}
         /\ DOMAIN Acceptance!Rows = 1..Len(Acceptance!Rows)
         /\ \A i \in 1..Len(Acceptance!Rows) : ProperRow(Acceptance!Rows[i])
<1> DEFINE J == Acceptance!JiraRows
           Cr == Acceptance!ConfluenceReadRows
           Cw == Acceptance!ConfluenceWriteRows
           Ca == Acceptance!ConfluenceAttachmentRows
           M == Acceptance!McpRows
           Elements(s, n) == {s[i] : i \in 1..n}
           All == Elements(J, 15) \cup Elements(Cr, 5) \cup Elements(Cw, 10)
                    \cup Elements(Ca, 7) \cup Elements(M, 5)
           R == {r \in All : ProperRow(r)}
<1>1. J \in Seq(Elements(J, 15)) /\ Len(J) = 15 /\ \A i \in 1..15 : ProperRow(J[i])
  <2>1. J \in Seq(Elements(J, 15)) BY DEF Acceptance!JiraRows
  <2>2. Len(J) = 15 BY DEF Acceptance!JiraRows
  <2>3. \A i \in 1..15 : ProperRow(J[i])
    BY DEF Acceptance!JiraRows, Acceptance!Row, Acceptance!Guarded, ProperRow
  <2> QED BY <2>1, <2>2, <2>3
<1>2. Cr \in Seq(Elements(Cr, 5)) /\ Len(Cr) = 5 /\ \A i \in 1..5 : ProperRow(Cr[i])
  <2>1. Cr \in Seq(Elements(Cr, 5)) BY DEF Acceptance!ConfluenceReadRows
  <2>2. Len(Cr) = 5 BY DEF Acceptance!ConfluenceReadRows
  <2>3. \A i \in 1..5 : ProperRow(Cr[i])
    BY DEF Acceptance!ConfluenceReadRows, Acceptance!Row, ProperRow
  <2> QED BY <2>1, <2>2, <2>3
<1>3. Cw \in Seq(Elements(Cw, 10)) /\ Len(Cw) = 10 /\ \A i \in 1..10 : ProperRow(Cw[i])
  <2>1. Cw \in Seq(Elements(Cw, 10)) BY DEF Acceptance!ConfluenceWriteRows
  <2>2. Len(Cw) = 10 BY DEF Acceptance!ConfluenceWriteRows
  <2>3. \A i \in 1..10 : ProperRow(Cw[i])
    BY DEF Acceptance!ConfluenceWriteRows, Acceptance!Row, Acceptance!Guarded, ProperRow
  <2> QED BY <2>1, <2>2, <2>3
<1>4. Ca \in Seq(Elements(Ca, 7)) /\ Len(Ca) = 7 /\ \A i \in 1..7 : ProperRow(Ca[i])
  <2>1. Ca \in Seq(Elements(Ca, 7)) BY DEF Acceptance!ConfluenceAttachmentRows
  <2>2. Len(Ca) = 7 BY DEF Acceptance!ConfluenceAttachmentRows
  <2>3. \A i \in 1..7 : ProperRow(Ca[i])
    BY DEF Acceptance!ConfluenceAttachmentRows, Acceptance!Row, Acceptance!Guarded, ProperRow
  <2> QED BY <2>1, <2>2, <2>3
<1>5. M \in Seq(Elements(M, 5)) /\ Len(M) = 5 /\ \A i \in 1..5 : ProperRow(M[i])
  <2> DEFINE list == [Acceptance!Row("tools/list", {}) EXCEPT !.transport = "list"]
             issue == Acceptance!Row("jira_get_issue", {Acceptance!Jira("READ_ISSUE")})
             page == Acceptance!Row("confluence_get_page", {Acceptance!Confluence("PAGE_ID")})
             issue_http == [issue EXCEPT !.transport = "http"]
             page_http == [page EXCEPT !.transport = "http"]
  <2>1. M = <<list, issue, page, issue_http, page_http>> BY Zenon DEF Acceptance!McpRows
  <2>2. \A t, Q, x : [Acceptance!Row(t, Q) EXCEPT !.transport = x].restricted = FALSE
    BY DEF Acceptance!Row
  <2>3. \A t, Q : Acceptance!Row(t, Q).restricted = FALSE BY DEF Acceptance!Row
  <2>4. /\ ProperRow(list) /\ ProperRow(issue) /\ ProperRow(page)
        /\ ProperRow(issue_http) /\ ProperRow(page_http)
    <3>1. list.restricted = FALSE BY <2>2
    <3>2. issue.restricted = FALSE /\ page.restricted = FALSE BY <2>3
    <3>3. issue_http.restricted = FALSE /\ page_http.restricted = FALSE BY <2>2
    <3> HIDE DEF list, issue, page, issue_http, page_http
    <3> QED BY <3>1, <3>2, <3>3 DEF ProperRow
  <2> HIDE DEF M, list, issue, page, issue_http, page_http
  <2> QED BY <2>1, <2>4
<1> HIDE DEF J, Cr, Cw, Ca, M
<1>6. /\ Elements(J, 15) \subseteq R /\ Elements(Cr, 5) \subseteq R /\ Elements(Cw, 10) \subseteq R
      /\ Elements(Ca, 7) \subseteq R /\ Elements(M, 5) \subseteq R
  BY <1>1, <1>2, <1>3, <1>4, <1>5
<1> HIDE DEF Elements, R
<1>7. /\ J \in Seq(R) /\ Cr \in Seq(R) /\ Cw \in Seq(R) /\ Ca \in Seq(R) /\ M \in Seq(R)
  BY <1>1, <1>2, <1>3, <1>4, <1>5, <1>6, SeqMonotonic
<1>8. Acceptance!Rows \in Seq(R) /\ Len(Acceptance!Rows) # 0
  <2>1. command.mode \in {"jira", "confluence", "mcp"} BY CommandsAssumption DEF Commands
  <2>2. Cr \o Cw \in Seq(R) /\ (Cr \o Cw) \o Ca \in Seq(R) BY <1>7
  <2>3. Len((Cr \o Cw) \o Ca) # 0
    <3>1. Len(Cr \o Cw) = Len(Cr) + Len(Cw) BY <1>7
    <3>2. Len((Cr \o Cw) \o Ca) = Len(Cr \o Cw) + Len(Ca) BY <1>7, <2>2
    <3>3. Len(Cr) = 5 /\ Len(Cw) = 10 /\ Len(Ca) = 7 BY <1>2, <1>3, <1>4
    <3> QED BY <3>1, <3>2, <3>3
  <2>4. Acceptance!Rows \in {J, (Cr \o Cw) \o Ca, M}
    BY <2>1 DEF Acceptance!Rows, J, Cr, Cw, Ca, M
  <2>5. Len(J) # 0 /\ Len(M) # 0 BY <1>1, <1>5
  <2> QED BY <1>7, <2>2, <2>3, <2>4, <2>5
<1>9. \A i \in 1..Len(Acceptance!Rows) : Acceptance!Rows[i] \in R
  BY <1>8, ElementOfSeq
<1>10. Len(Acceptance!Rows) \in Nat /\ DOMAIN Acceptance!Rows = 1..Len(Acceptance!Rows)
  BY <1>8, LenProperties
<1> QED BY <1>8, <1>9, <1>10 DEF R

RowCount == Len(Acceptance!Rows)

\* What the row at work needs is there.
RowGiven == \A key \in Acceptance!Current.required : Acceptance!Given(key)

\* Where the acceptance runner stands: at a row, whose child alone may be running.
RowsAt ==
    /\ command \in AcceptanceCommands
    /\ pc \in {"load", "preflight", "row", "call", "tally", "done"}
    /\ row \in 1..RowCount
    /\ children \subseteq {row} /\ (pc # "call" => children = {})
    /\ mocks = {}

\* The rows before this one are printed, each as it was dealt with; the others are
\* untouched; a row is called only with what it needs; at the end the exit code is the
\* highest of the rows.
RowsTold ==
    /\ printed \in Seq({"ok", "blocked", "failed"})
    /\ truth = [i \in 1..RowCount |-> truth[i]]
    /\ pc \in {"load", "preflight"} => row = 1 /\ printed = <<>>
    /\ pc \in {"row", "call"} => Len(printed) = row - 1
    /\ pc = "call" => RowGiven
    /\ pc = "tally" => Len(printed) = RowCount
    /\ pc = "done" /\ printed # <<>> =>
           /\ Len(printed) = RowCount
           /\ \E i \in 1..RowCount : exit = Acceptance!ExitOf(printed[i])
           /\ \A i \in 1..RowCount : Acceptance!ExitOf(printed[i]) <= exit
    /\ \A i \in 1..Len(printed) : LineTrue(i)
    /\ \A i \in 1..RowCount : i > Len(printed) => truth[i] = "none"

OverMcp == Smoke!Kind \in {"stdio", "http", "restricted"}

\* Where the smoke runner stands: in a phase of a session, at a step of it; the child
\* of this phase and the mock of this session alone may be up.
SmokeAt ==
    /\ command \in SmokeCommands
    /\ pc \in {"build", "bind", "run", "close", "unbind", "done"}
    /\ verdict \in {"ok", "failed"}
    /\ at \in [session : Nat, phase : Nat, step : Nat]
    /\ at.session \in 1..Len(Smoke!Sessions)
    /\ at.phase \in 1..Len(Smoke!Phases)
    /\ at.step \in 1..Len(Smoke!Steps(Smoke!Kind, Smoke!Service))
    /\ pc \in {"build", "bind"} => at.phase = 1 /\ at.step = 1
    /\ children \subseteq {<<at.session, at.phase>>}
    /\ pc \notin {"run", "close"} => children = {}
    /\ mocks \subseteq {at.session}
    /\ pc \notin {"run", "close", "unbind"} => mocks = {}
    /\ hung => pc = "run" /\ Smoke!Step \notin {"start", "record"}
    /\ verdict = "failed" => pc \in {"close", "unbind", "done"}
    /\ pc = "unbind" /\ verdict = "ok" => at.phase = Len(Smoke!Phases)
    /\ exit = 0 => pc = "done" /\ verdict = "ok"
    /\ exit \in {-1, 0, 1} /\ (exit = -1 <=> pc # "done")

\* A deviation that the record of this session will give away.
Pending(d) ==
    /\ d.session = at.session
    /\ \/ /\ d.step[2] = "stray" /\ pc \in {"run", "close"}
          /\ Smoke!Forbidden(Smoke!Service) \in Smoke!Requested
          /\ ~(pc = "close" /\ Smoke!Kind = "restricted")
       \/ /\ d.step[2] = "unasked" /\ pc = "run"
          /\ Smoke!Kind = "controls" /\ Smoke!Step = "record"
          /\ Smoke!Written(Smoke!Service) \notin Smoke!Requested

\* What the smoke sets out to find has been found, or keeps it waiting, or is pending.
SmokeFound ==
    /\ \A d \in deviations : SetsOutToFind(d) => verdict = "failed" \/ hung \/ Pending(d)
    /\ pc = "run" /\ Smoke!Kind = "controls" /\ Smoke!Step # "record" => record = {}

Blameless == deviations = {} /\ outside = {} /\ dotenv = {}

\* Where nothing went wrong nothing failed: over MCP the child has only read, and the
\* command of the CLI has written what the record is then searched for.
SmokeReason ==
    /\ Blameless => verdict = "ok" /\ exit # 1
    /\ deviations = {} /\ pc \in {"run", "close"} /\ OverMcp =>
           \A r \in Smoke!Requested : r[1] = "GET"
    /\ deviations = {} /\ pc = "run" /\ Smoke!Kind = "controls" /\ Smoke!Step = "record" =>
           Smoke!Written(Smoke!Service) \in Smoke!Requested

\* The rows depend on the command alone.
LEMMA RowsKept ==
  ASSUME UNCHANGED command
  PROVE  (Acceptance!Rows)' = Acceptance!Rows /\ RowCount' = RowCount
BY DEF Acceptance!Rows, RowCount

\* Whether a line is true depends on it, on how the row was dealt with and on what was given.
LEMMA LineKept ==
  ASSUME UNCHANGED <<command, env>>, NEW i, printed'[i] = printed[i], truth'[i] = truth[i]
  PROVE  LineTrue(i)' <=> LineTrue(i)
<1>1. (Acceptance!Rows)' = Acceptance!Rows BY RowsKept
<1>2. \A key : Acceptance!Given(key)' <=> Acceptance!Given(key) BY DEF Acceptance!Given
<1> QED BY <1>1, <1>2 DEF LineTrue, Passable, Acceptance!Swallowing

\* How a status tells what was done with a row: what LineTrue says of the row at work.
Tells(status, answer) ==
    /\ status \in {"ok", "blocked", "failed"}
    /\ status = "ok" <=> answer \in Passable(Acceptance!Current)
    /\ status = "blocked" <=> answer \in {"none", "product"}
    /\ answer = "none" <=> ~RowGiven

\* A guarded row that follows its settings is refused, and only a tool that swallows a
\* failure of the service does so; a listing is served or hidden.
LEMMA FollowedFacts ==
  ASSUME RowsAt
  PROVE  /\ \/ Acceptance!Current.restricted = FALSE
            \/ Acceptance!Current.restricted = TRUE /\ Acceptance!Followed = {"refused"}
         /\ Acceptance!Followed \subseteq
                {"served", "error", "product", "swallowed", "hidden", "refused"}
         /\ "swallowed" \in Acceptance!Followed => Acceptance!Current.tool \in Acceptance!Swallowing
<1>1. ProperRow(Acceptance!Current)
  BY RowsFacts DEF RowsAt, RowCount, Acceptance!Current
<1>2. ASSUME Acceptance!Current.restricted = TRUE PROVE Acceptance!Followed = {"refused"}
  <2>1. Acceptance!Current.tool \notin Acceptance!ChildTools
    BY <1>2 DEF Acceptance!ChildTools, Acceptance!CleanDisabled, Acceptance!EnabledBy
  <2>2. Acceptance!Current.transport # "list" BY <1>1, <1>2 DEF ProperRow
  <2> QED BY <2>1, <2>2 DEF Acceptance!Followed
<1>3. /\ Acceptance!ServiceAnswers \subseteq {"served", "error", "product", "swallowed"}
      /\ "swallowed" \in Acceptance!ServiceAnswers
                => Acceptance!Current.tool \in Acceptance!Swallowing
  BY Zenon DEF Acceptance!ServiceAnswers
<1>4. \/ Acceptance!Followed = {"served"} \/ Acceptance!Followed = {"hidden"}
      \/ Acceptance!Followed = {"refused"} \/ Acceptance!Followed = Acceptance!ServiceAnswers
  BY Zenon DEF Acceptance!Followed
<1> QED BY <1>1, <1>2, <1>3, <1>4 DEF ProperRow

\* What classify_response prints for an answer tells what was done with the row.
LEMMA ClassifiedTells ==
  ASSUME RowsAt, RowGiven
  PROVE  /\ \A answer \in Acceptance!Followed : Tells(Acceptance!Classified(answer), answer)
         /\ Tells(Acceptance!Classified("hollow"), "hollow")
         /\ Acceptance!Current.restricted =>
                Tells(Acceptance!Classified("served"), "disobeyed")
         /\ Tells("failed", "unanswered")
<1> DEFINE r == Acceptance!Current
<1>1. CASE r.restricted = TRUE
  <2>1. Passable(r) = {"refused"} BY <1>1 DEF Passable
  <2>2. Acceptance!Followed = {"refused"} BY <1>1, FollowedFacts
  <2>3. /\ Acceptance!Classified("refused") = "ok" /\ Acceptance!Classified("hollow") = "failed"
        /\ Acceptance!Classified("served") = "failed"
    BY <1>1 DEF Acceptance!Classified
  <2> QED BY <2>1, <2>2, <2>3 DEF Tells
<1>2. CASE r.restricted = FALSE
  <2> DEFINE Swallows == r.tool \in Acceptance!Swallowing
             Listing == r.transport = "list"
  <2>1. Passable(r) = {"served"} \cup (IF Swallows THEN {"swallowed"} ELSE {})
                         \cup (IF ~Listing THEN {"hollow"} ELSE {})
    BY <1>2 DEF Passable
  <2>2. /\ "served" \in Passable(r)
        /\ "swallowed" \in Passable(r) <=> Swallows
        /\ "hollow" \in Passable(r) <=> ~Listing
        /\ \A x \in {"error", "product", "hidden", "refused", "unanswered", "none"} :
               x \notin Passable(r)
    <3> HIDE DEF r, Swallows, Listing
    <3> QED BY <2>1
  <2>3. /\ Acceptance!Classified("served") = "ok" /\ Acceptance!Classified("swallowed") = "ok"
        /\ Acceptance!Classified("product") = "blocked"
        /\ \A x \in {"error", "hidden", "refused"} : Acceptance!Classified(x) = "failed"
        /\ Acceptance!Classified("hollow") = IF Listing THEN "failed" ELSE "ok"
    BY <1>2 DEF Acceptance!Classified
  <2>4. ASSUME NEW answer \in Acceptance!Followed
        PROVE  Tells(Acceptance!Classified(answer), answer)
    <3>1. /\ answer \in {"served", "error", "product", "swallowed", "hidden", "refused"}
          /\ answer = "swallowed" => Swallows
      BY FollowedFacts
    <3> HIDE DEF r, Swallows, Listing
    <3> QED BY <2>2, <2>3, <3>1 DEF Tells, r
  <2>5. Tells(Acceptance!Classified("hollow"), "hollow")
    <3> HIDE DEF Swallows, Listing
    <3> QED BY <2>2, <2>3 DEF Tells
  <2>6. Tells("failed", "unanswered") BY <2>2 DEF Tells
  <2> QED BY <1>2, <2>4, <2>5, <2>6
<1> QED BY <1>1, <1>2, FollowedFacts

\* A row is told: its line is printed as it was dealt with.
LEMMA TellStep ==
  ASSUME RowsAt, RowsTold, UNCHANGED <<command, mocks, env>>, pc \in {"row", "call"},
         NEW status, NEW answer, Tells(status, answer),
         truth' = [truth EXCEPT ![row] = answer],
         Acceptance!Tell(status), children' = {}
  PROVE  RowsAt' /\ RowsTold'
<1> DEFINE N == RowCount
<1>1. N \in Nat \ {0} BY RowsFacts DEF RowsAt, RowCount
<1>2. (Acceptance!Rows)' = Acceptance!Rows /\ N' = N BY RowsKept
<1>3. row \in 1..N /\ Len(printed) = row - 1 /\ printed \in Seq({"ok", "blocked", "failed"})
  BY DEF RowsAt, RowsTold
<1>4. printed' = Append(printed, status) /\ status \in {"ok", "blocked", "failed"}
  BY DEF Acceptance!Tell, Tells
<1>5. /\ printed' \in Seq({"ok", "blocked", "failed"}) /\ Len(printed') = row
      /\ printed'[row] = status /\ \A i \in 1..(row - 1) : printed'[i] = printed[i]
  BY <1>3, <1>4
<1>6. \/ row = N /\ pc' = "tally" /\ row' = row
      \/ row # N /\ pc' = "row" /\ row' = row + 1
  BY DEF Acceptance!Tell, RowCount
<1>7. truth = [i \in 1..N |-> truth[i]] BY DEF RowsTold
<1>8. /\ truth' = [i \in 1..N |-> truth'[i]] /\ truth'[row] = answer
      /\ \A i \in 1..N : i # row => truth'[i] = truth[i]
  <2> HIDE DEF N
  <2> QED BY <1>3, <1>7
<1>9. RowsAt'
  <2> HIDE DEF N
  <2>1. row' \in 1..N BY <1>1, <1>3, <1>6
  <2> QED BY <1>2, <1>6, <2>1 DEF RowsAt, N
<1>10. ASSUME NEW i \in 1..Len(printed') PROVE LineTrue(i)'
  <2>1. CASE i = row
    <3>1. \A key : Acceptance!Given(key)' <=> Acceptance!Given(key) BY DEF Acceptance!Given
    <3>2. (Acceptance!Rows)'[i] = Acceptance!Current BY <1>2, <2>1 DEF Acceptance!Current
    <3>3. \A r : Passable(r)' = Passable(r) BY DEF Passable, Acceptance!Swallowing
    <3>4. printed'[i] = status /\ truth'[i] = answer BY <1>5, <1>8, <2>1
    <3> QED BY <3>1, <3>2, <3>3, <3>4 DEF LineTrue, Tells, RowGiven
  <2>2. CASE i # row
    <3>1. i \in 1..(row - 1) /\ i \in 1..N
      <4> HIDE DEF N
      <4> QED BY <1>1, <1>3, <1>5, <2>2
    <3>2. printed'[i] = printed[i] /\ truth'[i] = truth[i] BY <1>5, <1>8, <2>2, <3>1
    <3>3. LineTrue(i) BY <1>3, <3>1 DEF RowsTold
    <3> QED BY <3>2, <3>3, LineKept
  <2> QED BY <2>1, <2>2
<1>11. ASSUME NEW i \in 1..N, i > Len(printed') PROVE truth'[i] = "none"
  <2> HIDE DEF N
  <2>1. i # row /\ i > Len(printed) BY <1>1, <1>3, <1>5, <1>11
  <2>2. truth[i] = "none" BY <2>1 DEF RowsTold, N
  <2> QED BY <1>8, <2>1, <2>2
<1>12. /\ pc' \in {"row", "call"} => Len(printed') = row' - 1
       /\ pc' = "tally" => Len(printed') = N
       /\ pc' \notin {"load", "preflight", "call", "done"}
  <2> HIDE DEF N
  <2> QED BY <1>1, <1>3, <1>5, <1>6
<1> HIDE DEF N
<1> QED BY <1>2, <1>5, <1>8, <1>9, <1>10, <1>11, <1>12 DEF RowsTold, N

\* Every step of the acceptance runner keeps both.
LEMMA AcceptanceStep ==
  ASSUME RowsAt, RowsTold, Acceptance!Next, UNCHANGED mocks
  PROVE  RowsAt' /\ RowsTold'
<1> DEFINE N == RowCount
           Statuses == {"ok", "blocked", "failed"}
<1>1. N \in Nat \ {0} BY RowsFacts DEF RowsAt, RowCount
<1>2. ASSUME UNCHANGED <<row, printed, truth, command, mocks>>,
             children' \subseteq {row}, pc' # "call" => children' = {},
             pc # "load" => env' = env,
             \/ pc = "load" /\ pc' \in {"preflight", "done"}
             \/ pc = "preflight" /\ pc' \in {"row", "done"}
             \/ pc = "row" /\ pc' = "call" /\ RowGiven
             \/ pc = "call" /\ pc' = "call"
      PROVE  RowsAt' /\ RowsTold'
  <2>1. (Acceptance!Rows)' = Acceptance!Rows /\ N' = N BY <1>2, RowsKept
  <2>2. RowsAt' BY <1>2, <2>1 DEF RowsAt
  <2>3. \A i \in 1..Len(printed) : LineTrue(i)'
    <3>1. CASE pc = "load"
      <4>1. Len(printed) = 0 BY <3>1 DEF RowsTold
      <4> QED BY <4>1
    <3>2. CASE pc # "load" BY <1>2, <3>2, LineKept DEF RowsTold
    <3> QED BY <3>1, <3>2
  <2>4. /\ pc' \in {"load", "preflight"} => row = 1 /\ printed = <<>>
        /\ pc' \in {"row", "call"} => Len(printed) = row - 1
        /\ pc' # "tally" /\ (pc' = "done" => printed = <<>>)
    <3>1. Len(<<>>) = 0 OBVIOUS
    <3> QED BY <1>2, <3>1 DEF RowsTold
  <2>5. pc' = "call" => RowGiven'
    <3>1. (Acceptance!Current)' = Acceptance!Current BY <1>2, <2>1 DEF Acceptance!Current
    <3>2. pc' = "call" => RowGiven /\ env' = env BY <1>2 DEF RowsTold
    <3> QED BY <3>1, <3>2 DEF RowGiven, Acceptance!Given
  <2> HIDE DEF N
  <2> QED BY <1>2, <2>1, <2>2, <2>3, <2>4, <2>5 DEF RowsTold, N
<1>3. CASE Acceptance!LoadEnv
  BY <1>2, <1>3 DEF Acceptance!LoadEnv, Acceptance!End, RowsAt
<1>4. CASE Acceptance!Preflight
  BY <1>2, <1>4 DEF Acceptance!Preflight, Acceptance!End, Acceptance!own, RowsAt
<1>5. CASE Acceptance!NoAnswer
  BY <1>2, <1>5 DEF Acceptance!NoAnswer, Acceptance!own, RowsAt
<1>6. CASE Acceptance!StartRow
  <2>1. CASE RowGiven
    <3>1. /\ children' = children \cup {row} /\ pc = "row" /\ pc' = "call"
          /\ UNCHANGED <<row, printed, truth, command, env>>
      BY <1>6, <2>1 DEF Acceptance!StartRow, RowGiven
    <3> QED BY <1>2, <2>1, <3>1 DEF RowsAt
  <2>2. CASE ~RowGiven
    <3>1. /\ Acceptance!Tell("blocked") /\ pc = "row"
          /\ UNCHANGED <<children, truth, command, env>>
      BY <1>6, <2>2 DEF Acceptance!StartRow, RowGiven
    <3>2. truth[row] = "none" /\ truth = [i \in 1..N |-> truth[i]] /\ row \in 1..N
      <4>1. row \in 1..N /\ Len(printed) = row - 1 BY <3>1 DEF RowsAt, RowsTold
      <4> HIDE DEF N
      <4> QED BY <1>1, <4>1 DEF RowsTold, N
    <3>3. truth' = [truth EXCEPT ![row] = "none"]
      <4> HIDE DEF N
      <4> QED BY <3>1, <3>2
    <3>4. children' = {} BY <3>1 DEF RowsAt
    <3>5. Tells("blocked", "none") BY <2>2 DEF Tells, Passable
    <3> QED BY <3>1, <3>3, <3>4, <3>5, TellStep
  <2> QED BY <2>1, <2>2
<1>7. ASSUME NEW answer, NEW status, Acceptance!EndRow(answer, status),
             pc = "call", UNCHANGED <<command, env>>, Tells(status, answer)
      PROVE  RowsAt' /\ RowsTold'
  <2>1. children' = {} BY <1>7 DEF Acceptance!EndRow, RowsAt
  <2>2. truth' = [truth EXCEPT ![row] = answer] /\ Acceptance!Tell(status)
    BY <1>7 DEF Acceptance!EndRow, Acceptance!Truth
  <2> QED BY <1>7, <2>1, <2>2, TellStep
<1>8. pc = "call" => RowGiven BY DEF RowsTold
<1>9. CASE Acceptance!Answered
  <2>1. PICK answer \in Acceptance!Followed :
          Acceptance!EndRow(answer, Acceptance!Classified(answer))
    BY <1>9 DEF Acceptance!Answered
  <2>2. pc = "call" /\ UNCHANGED <<command, env>> BY <1>9 DEF Acceptance!Answered
  <2>3. Tells(Acceptance!Classified(answer), answer) BY <1>8, <2>2, ClassifiedTells
  <2> QED BY <1>7, <2>1, <2>2, <2>3
<1>10. CASE Acceptance!Unanswered
  <2>1. /\ Acceptance!EndRow("unanswered", "failed") /\ pc = "call"
        /\ UNCHANGED <<command, env>>
    BY <1>10 DEF Acceptance!Unanswered
  <2>2. Tells("failed", "unanswered") BY <1>8, <2>1, ClassifiedTells
  <2> QED BY <1>7, <2>1, <2>2
<1>11. CASE Acceptance!Deviated
  <2>1. pc = "call" /\ UNCHANGED <<command, env>> BY <1>11 DEF Acceptance!Deviated
  <2>2. CASE /\ Acceptance!Current.restricted
             /\ Acceptance!EndRow("disobeyed", Acceptance!Classified("served"))
    <3>1. Tells(Acceptance!Classified("served"), "disobeyed")
      BY <1>8, <2>1, <2>2, ClassifiedTells
    <3> QED BY <1>7, <2>1, <2>2, <3>1
  <2>3. CASE Acceptance!EndRow("hollow", Acceptance!Classified("hollow"))
    <3>1. Tells(Acceptance!Classified("hollow"), "hollow") BY <1>8, <2>1, ClassifiedTells
    <3> QED BY <1>7, <2>1, <2>3, <3>1
  <2> QED BY <1>11, <2>2, <2>3 DEF Acceptance!Deviated
<1>12. CASE Acceptance!Tally
  <2> DEFINE Code(i) == Acceptance!ExitOf(printed[i])
             codes == {Code(i) : i \in 1..N}
  <2>1. /\ pc = "tally" /\ pc' = "done"
        /\ UNCHANGED <<command, children, row, printed, truth, env>>
    BY <1>12 DEF Acceptance!Tally, Acceptance!End, Acceptance!own
  <2>2. Len(printed) = N /\ DOMAIN printed = 1..N BY <2>1, LenProperties DEF RowsTold
  <2>3. exit' = CHOOSE c \in codes : \A d \in codes : d <= c
    BY <1>12, <2>2 DEF Acceptance!Tally, Acceptance!End
  <2>4. codes \subseteq {0, 1, 2} /\ Code(1) \in codes
    <3>1. \A i \in 1..N : printed[i] \in Statuses BY <2>2 DEF RowsTold
    <3>2. \A i \in 1..N : Code(i) \in {0, 1, 2} BY <3>1 DEF Acceptance!ExitOf
    <3>3. 1 \in 1..N
      <4> HIDE DEF N
      <4> QED BY <1>1
    <3> HIDE DEF Code, N
    <3> QED BY <3>2, <3>3
  <2>5. \E c \in codes : \A d \in codes : d <= c
    <3> HIDE DEF codes, Code
    <3>1. CASE 2 \in codes BY <2>4, <3>1
    <3>2. CASE 2 \notin codes /\ 1 \in codes BY <2>4, <3>2
    <3>3. CASE 2 \notin codes /\ 1 \notin codes
      <4>1. 0 \in codes /\ codes \subseteq {0} BY <2>4, <3>3
      <4> QED BY <4>1
    <3> QED BY <3>1, <3>2, <3>3
  <2>6. exit' \in codes /\ \A d \in codes : d <= exit'
    <3> HIDE DEF codes
    <3> QED BY <2>3, <2>5
  <2>7. (Acceptance!Rows)' = Acceptance!Rows /\ N' = N BY <2>1, RowsKept
  <2>8. RowsAt' BY <2>1, <2>7 DEF RowsAt
  <2>9. \A i \in 1..Len(printed) : LineTrue(i)' BY <2>1, LineKept DEF RowsTold
  <2>10. /\ \E i \in 1..N : exit' = Code(i)
         /\ \A i \in 1..N : Code(i) <= exit'
    <3> HIDE DEF Code, N
    <3> QED BY <2>6
  <2>11. \A i : Code(i)' = Code(i) BY <2>1 DEF Acceptance!ExitOf
  <2>12. /\ \E i \in 1..N : exit' = Code(i)'
         /\ \A i \in 1..N : Code(i)' <= exit'
    <3> HIDE DEF Code, N
    <3> QED BY <2>10, <2>11
  <2> HIDE DEF N
  <2> QED BY <2>1, <2>2, <2>7, <2>8, <2>9, <2>12 DEF RowsTold, N
<1> QED
  BY <1>3, <1>4, <1>5, <1>6, <1>9, <1>10, <1>11, <1>12 DEF Acceptance!Next

\* What the invariant gives at the end.
LEMMA RowsEnd ==
  ASSUME RowsAt, RowsTold, pc = "done", printed # <<>>
  PROVE  /\ Len(printed) = RowCount /\ \A i \in DOMAIN printed : LineTrue(i)
         /\ exit = IF Printed("blocked") THEN 2 ELSE IF Printed("failed") THEN 1 ELSE 0
<1> DEFINE N == RowCount
           Code(i) == Acceptance!ExitOf(printed[i])
<1>1. Len(printed) = N /\ N \in Nat \ {0} BY RowsFacts DEF RowsTold, RowsAt, RowCount
<1>2. DOMAIN printed = 1..N BY <1>1, LenProperties DEF RowsTold
<1>3. (\E i \in 1..N : exit = Code(i)) /\ (\A i \in 1..N : Code(i) <= exit)
  BY DEF RowsTold
<1>4. \A i \in 1..N : printed[i] \in {"ok", "blocked", "failed"} BY <1>1 DEF RowsTold
<1>5. \A i \in 1..N : LineTrue(i) BY <1>1 DEF RowsTold
<1>6. \A i \in 1..N : /\ Code(i) \in {0, 1, 2}
                      /\ Code(i) = 2 <=> printed[i] = "blocked"
                      /\ Code(i) = 1 <=> printed[i] = "failed"
  BY <1>4 DEF Acceptance!ExitOf
<1>7. \A status : Printed(status) <=> \E i \in 1..N : printed[i] = status
  BY <1>2 DEF Printed
<1> HIDE DEF N, Code
<1>8. exit = 2 <=> Printed("blocked") BY <1>3, <1>6, <1>7
<1>9. exit = 1 <=> Printed("failed") /\ ~Printed("blocked") BY <1>3, <1>6, <1>7
<1>10. exit \in {0, 1, 2} BY <1>3, <1>6
<1> QED BY <1>1, <1>2, <1>5, <1>8, <1>9, <1>10 DEF N

-----------------------------------------------------------------------------
(* The smoke runner: its sessions and their phases.                        *)

ServiceNames == {"jira", "confluence", "gitlab"}

\* The phases that a session may have.
PhaseLists ==
    {<<"stdio", "http", "restricted">>, <<"stdio">>, <<"http">>, <<"restricted">>,
     <<"text", "json">>, <<"controls">>}

SessionSet == {Smoke!Session(s, p) : s \in ServiceNames, p \in PhaseLists}

\* Every command has a session at least, and its sessions are of these.
LEMMA SessionsFacts ==
  ASSUME command \in SmokeCommands
  PROVE  Smoke!Sessions \in Seq(SessionSet) /\ Len(Smoke!Sessions) # 0
<1>1. \A s \in ServiceNames, p \in PhaseLists : Smoke!Session(s, p) \in SessionSet
  BY DEF SessionSet
<1>2. /\ <<"stdio", "http", "restricted">> \in PhaseLists
      /\ <<"stdio">> \in PhaseLists /\ <<"http">> \in PhaseLists
      /\ <<"restricted">> \in PhaseLists /\ <<"text", "json">> \in PhaseLists
      /\ <<"controls">> \in PhaseLists
  BY DEF PhaseLists
<1>3. "jira" \in ServiceNames /\ "confluence" \in ServiceNames /\ "gitlab" \in ServiceNames
  BY DEF ServiceNames
<1>4. \A mode \in {"all", "stdio", "http", "restricted"} : Smoke!PhasesOf(mode) \in PhaseLists
  <2>1. \A mode \in {"stdio", "http", "restricted"} : <<mode>> \in PhaseLists BY <1>2
  <2> QED BY <1>2, <2>1 DEF Smoke!PhasesOf
<1>5. Smoke!BareSmoke \in Seq(SessionSet) /\ Len(Smoke!BareSmoke) # 0
  <2> DEFINE a == Smoke!Session("jira", <<"stdio">>)
             b == Smoke!Session("jira", <<"http">>)
             c == Smoke!Session("jira", <<"restricted">>)
             d == Smoke!Session("confluence", Smoke!PhasesOf("all"))
             e == Smoke!Session("gitlab", Smoke!PhasesOf("all"))
  <2>1. a \in SessionSet /\ b \in SessionSet /\ c \in SessionSet /\ d \in SessionSet
          /\ e \in SessionSet
    BY <1>1, <1>2, <1>3, <1>4
  <2>2. Smoke!BareSmoke = <<a, b, c, d, e>> BY DEF Smoke!BareSmoke
  <2> HIDE DEF a, b, c, d, e
  <2> QED BY <2>1, <2>2
<1>6. ASSUME NEW s \in ServiceNames
      PROVE  Smoke!CliSessions(s) \in Seq(SessionSet) /\ Len(Smoke!CliSessions(s)) = 2
  <2> DEFINE a == Smoke!Session(s, <<"text", "json">>)
             b == Smoke!Session(s, <<"controls">>)
  <2>1. a \in SessionSet /\ b \in SessionSet BY <1>1, <1>2
  <2>2. Smoke!CliSessions(s) = <<a, b>> BY DEF Smoke!CliSessions
  <2> HIDE DEF a, b
  <2> QED BY <2>1, <2>2
<1>7. ASSUME NEW s \in ServiceNames, NEW mode \in {"all", "stdio", "http", "restricted"}
      PROVE  LET t == <<Smoke!Session(s, Smoke!PhasesOf(mode))>>
             IN  t \in Seq(SessionSet) /\ Len(t) # 0
  <2> DEFINE a == Smoke!Session(s, Smoke!PhasesOf(mode))
  <2>1. a \in SessionSet BY <1>1, <1>4
  <2>2. <<a>> \in Seq(SessionSet) /\ Len(<<a>>) = 1
    <3> HIDE DEF a
    <3> QED BY <2>1
  <2> QED BY <2>2
<1> DEFINE list == [i \in DOMAIN Smoke!SmokeServices |-> Smoke!CliSessions(Smoke!SmokeServices[i])]
<1>8. FlattenSeq(list) \in Seq(SessionSet) /\ Len(FlattenSeq(list)) # 0
  <2>1. /\ DOMAIN Smoke!SmokeServices = 1..3
        /\ Smoke!SmokeServices[1] = "jira" /\ Smoke!SmokeServices[2] = "confluence"
        /\ Smoke!SmokeServices[3] = "gitlab"
    BY DEF Smoke!SmokeServices
  <2>2. Len(list) = 3 BY <2>1
  <2>3. /\ list[1] = Smoke!CliSessions("jira") /\ list[2] = Smoke!CliSessions("confluence")
        /\ list[3] = Smoke!CliSessions("gitlab")
    BY <2>1
  <2> HIDE DEF list
  <2>4. /\ list[1] \in Seq(SessionSet) /\ list[2] \in Seq(SessionSet)
        /\ list[3] \in Seq(SessionSet) /\ Len(list[3]) = 2
    BY <1>3, <1>6, <2>3
  <2> DEFINE n == 3
  <2>5. n \in Nat \ {0} /\ Len(list) = n BY <2>2
  <2> HIDE DEF n
  <2>6. PICK F : /\ F[1] = list[1] /\ \A i \in 1..(n - 1) : F[i + 1] = F[i] \o list[i + 1]
                 /\ FlattenSeq(list) = F[n]
    BY <2>5, FlattenFacts
  <2> DEFINE u == list[1] \o list[2]
             v == u \o list[3]
  <2>7. FlattenSeq(list) = v
    <3>1. 1 \in 1..(n - 1) /\ 2 \in 1..(n - 1) /\ 1 + 1 = 2 /\ 2 + 1 = n BY DEF n
    <3>2. F[2] = u BY <2>6, <3>1
    <3>3. F[n] = v BY <2>6, <3>1, <3>2 DEF n
    <3> QED BY <2>6, <3>3
  <2>8. u \in Seq(SessionSet) BY <2>4
  <2>9. v \in Seq(SessionSet)
    <3> HIDE DEF u
    <3> QED BY <2>4, <2>8
  <2>10. Len(v) = Len(u) + Len(list[3])
    <3> HIDE DEF u
    <3> QED BY <2>4, <2>8, ConcatProperties, Zenon
  <2>11. Len(u) \in Nat
    <3> HIDE DEF u
    <3> QED BY <2>8, LenProperties
  <2> HIDE DEF u, v
  <2> QED BY <2>4, <2>7, <2>9, <2>10, <2>11
<1>9. CASE command = [target |-> "bare"] BY <1>5, <1>9 DEF Smoke!Sessions
<1>10. CASE command \in [target : {"mcp"}, service : ServiceNames,
                         mode : {"all", "stdio", "http", "restricted"}]
  <2>1. /\ command.target = "mcp" /\ command.service \in ServiceNames
        /\ command.mode \in {"all", "stdio", "http", "restricted"}
    BY <1>10
  <2>2. Smoke!Sessions = <<Smoke!Session(command.service, Smoke!PhasesOf(command.mode))>>
    BY <2>1 DEF Smoke!Sessions
  <2> QED BY <1>7, <2>1, <2>2
<1>11. CASE command \in [target : {"cli"}, service : {"all"} \cup ServiceNames]
  <2>1. command.target = "cli" /\ command.service \in {"all"} \cup ServiceNames BY <1>11
  <2>2. command.target # "bare" /\ command.target # "mcp" BY <2>1
  <2>3. CASE command.service = "all"
    <3>1. Smoke!Sessions = Smoke!FlattenSeq(list) BY <2>1, <2>2, <2>3 DEF Smoke!Sessions
    <3>2. Smoke!FlattenSeq(list) = FlattenSeq(list)
      <4> HIDE DEF list
      <4> QED BY Zenon DEF Smoke!FlattenSeq, FlattenSeq
    <3> HIDE DEF list
    <3> QED BY <1>8, <3>1, <3>2
  <2>4. CASE command.service \in ServiceNames
    <3>1. command.service # "all" BY <2>4 DEF ServiceNames
    <3>2. Smoke!Sessions = Smoke!CliSessions(command.service)
      BY <2>1, <2>2, <3>1 DEF Smoke!Sessions
    <3> HIDE DEF list
    <3> QED BY <1>6, <2>4, <3>2
  <2> QED BY <2>1, <2>3, <2>4
<1> QED BY <1>9, <1>10, <1>11, CommandsAssumption DEF Commands, ServiceNames

\* The phases of a session are all over MCP or all of the CLI; the one with a disabled
\* tool comes last, and the command that must reach its mock has a session of its own.
LEMMA PhaseFacts ==
  ASSUME NEW p \in PhaseLists
  PROVE  /\ Len(p) \in {1, 2, 3} /\ DOMAIN p = 1..Len(p)
         /\ \A i \in 1..Len(p) :
                /\ p[i] \in {"stdio", "http", "restricted", "text", "json", "controls"}
                /\ p[i] = "restricted" => i = Len(p)
                /\ p[i] = "controls" => Len(p) = 1
                /\ \A j \in 1..Len(p) :
                       p[i] \in {"stdio", "http", "restricted"}
                           => p[j] \in {"stdio", "http", "restricted"}
<1>1. CASE p = <<"stdio", "http", "restricted">> BY <1>1
<1>2. CASE p = <<"stdio">> BY <1>2
<1>3. CASE p = <<"http">> BY <1>3
<1>4. CASE p = <<"restricted">> BY <1>4
<1>5. CASE p = <<"text", "json">> BY <1>5
<1>6. CASE p = <<"controls">> BY <1>6
<1> QED BY <1>1, <1>2, <1>3, <1>4, <1>5, <1>6, Zenon DEF PhaseLists

\* What a session of the list has.
LEMMA SessionFields ==
  ASSUME NEW s \in SessionSet
  PROVE  s.service \in ServiceNames /\ s.phases \in PhaseLists
BY DEF SessionSet, Smoke!Session

\* The steps of the phases of the CLI.
LEMMA CliSteps ==
  ASSUME NEW service
  PROVE  /\ \A kind \in {"text", "json"} : Smoke!Steps(kind, service) = <<"start", "output">>
         /\ Smoke!Steps("controls", service) = <<"start", "output", "record">>
BY DEF Smoke!Steps

\* The steps of the phase with a disabled tool.
LEMMA RestrictedSteps ==
  ASSUME NEW service
  PROVE  Smoke!Steps("restricted", service) =
             <<"start", "initialize", "list", Smoke!WriteTool(service), "record">>
BY DEF Smoke!Steps, Smoke!RestrictedSteps

\* The tools that the phases call have names that are no step's.
LEMMA CallsFacts ==
  ASSUME NEW service \in ServiceNames
  PROVE  LET c == Smoke!Calls(service)
         IN  /\ Len(c) \in {5, 2, 3} /\ c \in Seq({c[i] : i \in 1..Len(c)})
             /\ \A i \in 1..Len(c) : 
                    /\ c[i] \notin {"start", "health", "initialize", "initialized", "list",
                                    "output", "record"}
                    /\ c[i] # Smoke!WriteTool(service)
                    /\ Smoke!Asks(c[i]) \in Smoke!Served(service)
                    /\ Smoke!Asks(c[i])[1] = "GET"
             /\ Smoke!WriteTool(service) \notin
                    {"start", "health", "initialize", "initialized", "list", "output", "record"}
             /\ Smoke!Forbidden(service)[1] = "POST"
<1>1. CASE service = "jira"
  <2>1. Smoke!Calls(service) = <<"jira_get_issue", "jira_list_issue_worklogs", "jira_list_agile_boards",
                                "jira_get_issue_timeline", "jira_get_issue_sla_metrics">>
    BY <1>1 DEF Smoke!Calls
  <2>2. /\ Smoke!Asks("jira_get_issue") = <<"GET", "issue">>
        /\ Smoke!Asks("jira_list_issue_worklogs") = <<"GET", "worklog">>
        /\ Smoke!Asks("jira_list_agile_boards") = <<"GET", "board">>
        /\ Smoke!Asks("jira_get_issue_timeline") = <<"GET", "issue">>
        /\ Smoke!Asks("jira_get_issue_sla_metrics") = <<"GET", "issue">>
    BY DEF Smoke!Asks
  <2>3. \A x \in {"board", "issue", "worklog"} : <<"GET", x>> \in Smoke!Served(service)
    BY <1>1 DEF Smoke!Served, Smoke!JiraServed
  <2>4. Smoke!WriteTool(service) = "jira_create_issue" BY <1>1 DEF Smoke!WriteTool
  <2>5. Smoke!Forbidden(service) = <<"POST", "issue">> BY <1>1 DEF Smoke!Forbidden
  <2> DEFINE c == Smoke!Calls(service)
             tools == {"jira_get_issue", "jira_list_issue_worklogs",
                     "jira_list_agile_boards", "jira_get_issue_timeline", "jira_get_issue_sla_metrics"}
  <2>6. Len(c) = 5 /\ c \in Seq({c[i] : i \in 1..Len(c)})
    <3>1. Len(c) = 5 BY <2>1
    <3>2. c \in Seq({c[i] : i \in 1..5}) BY <2>1
    <3> HIDE DEF c
    <3> QED BY <3>1, <3>2
  <2>7. \A i \in 1..Len(c) : c[i] \in tools BY <2>1
  <2>8. \A t \in tools :
            /\ t \notin {"start", "health", "initialize", "initialized", "list",
                         "output", "record"}
            /\ t # Smoke!WriteTool(service)
    BY <2>4
  <2>9. \A t \in tools :
            Smoke!Asks(t) \in Smoke!Served(service) /\ Smoke!Asks(t)[1] = "GET"
    BY <2>2, <2>3
  <2>10. /\ Smoke!WriteTool(service) \notin
                {"start", "health", "initialize", "initialized", "list", "output", "record"}
         /\ Smoke!Forbidden(service)[1] = "POST"
    BY <2>4, <2>5
  <2> HIDE DEF c, tools
  <2> QED BY <2>6, <2>7, <2>8, <2>9, <2>10 DEF c
<1>2. CASE service = "confluence"
  <2>1. Smoke!Calls(service) = <<"confluence_search_content", "confluence_get_page">>
    BY <1>2 DEF Smoke!Calls
  <2>2. /\ Smoke!Asks("confluence_search_content") = <<"GET", "search">>
        /\ Smoke!Asks("confluence_get_page") = <<"GET", "content">>
    BY DEF Smoke!Asks
  <2>3. \A x \in {"content", "search"} : <<"GET", x>> \in Smoke!Served(service)
    BY <1>2 DEF Smoke!Served, Smoke!ConfluenceServed
  <2>4. Smoke!WriteTool(service) = "confluence_create_page" BY <1>2 DEF Smoke!WriteTool
  <2>5. Smoke!Forbidden(service) = <<"POST", "content">> BY <1>2 DEF Smoke!Forbidden
  <2> DEFINE c == Smoke!Calls(service)
             tools == {"confluence_search_content", "confluence_get_page"}
  <2>6. Len(c) = 2 /\ c \in Seq({c[i] : i \in 1..Len(c)})
    <3>1. Len(c) = 2 BY <2>1
    <3>2. c \in Seq({c[i] : i \in 1..2}) BY <2>1
    <3> HIDE DEF c
    <3> QED BY <3>1, <3>2
  <2>7. \A i \in 1..Len(c) : c[i] \in tools BY <2>1
  <2>8. \A t \in tools :
            /\ t \notin {"start", "health", "initialize", "initialized", "list",
                         "output", "record"}
            /\ t # Smoke!WriteTool(service)
    BY <2>4
  <2>9. \A t \in tools :
            Smoke!Asks(t) \in Smoke!Served(service) /\ Smoke!Asks(t)[1] = "GET"
    BY <2>2, <2>3
  <2>10. /\ Smoke!WriteTool(service) \notin
                {"start", "health", "initialize", "initialized", "list", "output", "record"}
         /\ Smoke!Forbidden(service)[1] = "POST"
    BY <2>4, <2>5
  <2> HIDE DEF c, tools
  <2> QED BY <2>6, <2>7, <2>8, <2>9, <2>10 DEF c
<1>3. CASE service = "gitlab"
  <2> service # "jira" /\ service # "confluence" BY <1>3
  <2>1. Smoke!Calls(service) = <<"gitlab_get_current_user", "gitlab_get_project", "gitlab_list_merge_requests">>
    BY <1>3 DEF Smoke!Calls
  <2>2. /\ Smoke!Asks("gitlab_get_current_user") = <<"GET", "user">>
        /\ Smoke!Asks("gitlab_get_project") = <<"GET", "project">>
        /\ Smoke!Asks("gitlab_list_merge_requests") = <<"GET", "merge_requests">>
    BY DEF Smoke!Asks
  <2>3. \A x \in {"merge_requests", "project", "user"} : <<"GET", x>> \in Smoke!Served(service)
    BY <1>3 DEF Smoke!Served, Smoke!GitlabServed
  <2>4. Smoke!WriteTool(service) = "gitlab_create_merge_request" BY <1>3 DEF Smoke!WriteTool
  <2>5. Smoke!Forbidden(service) = <<"POST", "merge_requests">> BY <1>3 DEF Smoke!Forbidden
  <2> DEFINE c == Smoke!Calls(service)
             tools == {"gitlab_get_current_user", "gitlab_get_project",
                     "gitlab_list_merge_requests"}
  <2>6. Len(c) = 3 /\ c \in Seq({c[i] : i \in 1..Len(c)})
    <3>1. Len(c) = 3 BY <2>1
    <3>2. c \in Seq({c[i] : i \in 1..3}) BY <2>1
    <3> HIDE DEF c
    <3> QED BY <3>1, <3>2
  <2>7. \A i \in 1..Len(c) : c[i] \in tools BY <2>1
  <2>8. \A t \in tools :
            /\ t \notin {"start", "health", "initialize", "initialized", "list",
                         "output", "record"}
            /\ t # Smoke!WriteTool(service)
    BY <2>4
  <2>9. \A t \in tools :
            Smoke!Asks(t) \in Smoke!Served(service) /\ Smoke!Asks(t)[1] = "GET"
    BY <2>2, <2>3
  <2>10. /\ Smoke!WriteTool(service) \notin
                {"start", "health", "initialize", "initialized", "list", "output", "record"}
         /\ Smoke!Forbidden(service)[1] = "POST"
    BY <2>4, <2>5
  <2> HIDE DEF c, tools
  <2> QED BY <2>6, <2>7, <2>8, <2>9, <2>10 DEF c
<1> QED BY <1>1, <1>2, <1>3 DEF ServiceNames

\* An entry of the registry names a tool of its service, and enables it by its toolset.
LEMMA EntryFacts ==
  ASSUME NEW service \in ServiceNames, NEW name, NEW toolset, NEW annotation,
         Smoke!T(name, toolset, annotation) \in
             (CASE service = "jira" -> Smoke!JiraIssueTools \cup Smoke!JiraProjectTools
                                           \cup Smoke!JiraWorkTools
                [] service = "confluence" -> Smoke!ConfluencePageTools
                                                 \cup Smoke!ConfluenceMediaTools
                [] service = "gitlab" -> Smoke!GitlabTools),
         toolset \in Smoke!Basic \cup Smoke!SmokeToolsets(service)
  PROVE  /\ name \in Smoke!ToolsOf[service]
         /\ \A D : name \notin D =>
                name \in Smoke!EnabledBy(Smoke!Basic \cup Smoke!SmokeToolsets(service), {}, D)
<1> DEFINE t == Smoke!T(name, toolset, annotation)
<1>1. t.name = name /\ t.toolset = toolset BY DEF Smoke!T
<1> HIDE DEF t
<1>2. CASE service = "jira"
  <2>1. t \in Smoke!JiraIssueTools \cup Smoke!JiraProjectTools \cup Smoke!JiraWorkTools
    BY <1>2 DEF t
  <2>2. Smoke!ToolsOf[service] = {e.name : e \in
            Smoke!JiraIssueTools \cup Smoke!JiraProjectTools \cup Smoke!JiraWorkTools}
    BY <1>2 DEF Smoke!ToolsOf
  <2>3. t \in Smoke!Registered BY <2>1 DEF Smoke!Registered
  <2> QED BY <1>1, <2>1, <2>2, <2>3 DEF Smoke!EnabledBy
<1>3. CASE service = "confluence"
  <2>1. t \in Smoke!ConfluencePageTools \cup Smoke!ConfluenceMediaTools BY <1>3 DEF t
  <2>2. Smoke!ToolsOf[service] = {e.name : e \in
            Smoke!ConfluencePageTools \cup Smoke!ConfluenceMediaTools}
    BY <1>3 DEF Smoke!ToolsOf
  <2>3. t \in Smoke!Registered BY <2>1 DEF Smoke!Registered
  <2> QED BY <1>1, <2>1, <2>2, <2>3 DEF Smoke!EnabledBy
<1>4. CASE service = "gitlab"
  <2>1. t \in Smoke!GitlabTools
    <3>1. service # "jira" /\ service # "confluence" BY <1>4
    <3> QED BY <1>4, <3>1 DEF t
  <2>2. Smoke!ToolsOf[service] = {e.name : e \in Smoke!GitlabTools} BY <1>4 DEF Smoke!ToolsOf
  <2>3. t \in Smoke!Registered BY <2>1 DEF Smoke!Registered
  <2> QED BY <1>1, <2>1, <2>2, <2>3 DEF Smoke!EnabledBy
<1> QED BY <1>2, <1>3, <1>4 DEF ServiceNames

\* The settings that the smoke gives its child enable every tool that a phase calls, and
\* the write tool of the service, as far as they are not disabled.
LEMMA SmokeEnables ==
  ASSUME NEW service \in ServiceNames
  PROVE  LET tools == Smoke!ToSet(Smoke!Calls(service)) \cup {Smoke!WriteTool(service)}
             enabled(D) ==
                 Smoke!EnabledBy(Smoke!Basic \cup Smoke!SmokeToolsets(service), {}, D)
         IN  /\ tools \subseteq Smoke!ToolsOf[service]
             /\ \A t \in tools : \A D : t \notin D => t \in enabled(D)
             /\ \A D : enabled(D) \cap D = {}
<1> DEFINE tools == Smoke!ToSet(Smoke!Calls(service)) \cup {Smoke!WriteTool(service)}
           sets == Smoke!Basic \cup Smoke!SmokeToolsets(service)
           Enabled(t) == /\ t \in Smoke!ToolsOf[service]
                         /\ \A D : t \notin D => t \in Smoke!EnabledBy(sets, {}, D)
<1>1. \A D : Smoke!EnabledBy(sets, {}, D) \cap D = {} BY DEF Smoke!EnabledBy
<1>2. CASE service = "jira"
  <2>1. Enabled("jira_get_issue")
    <3>1. Smoke!T("jira_get_issue", "jira_issues_read", "read_only") \in Smoke!JiraIssueTools
      BY DEF Smoke!JiraIssueTools
    <3>2. "jira_issues_read" \in sets BY <1>2 DEF Smoke!Basic, Smoke!SmokeToolsets
    <3> HIDE DEF sets
    <3> QED BY <1>2, <3>1, <3>2, EntryFacts DEF sets
  <2>2. Enabled("jira_create_issue")
    <3>1. Smoke!T("jira_create_issue", "jira_issues_write", "additive_write")
          \in Smoke!JiraIssueTools
      BY DEF Smoke!JiraIssueTools
    <3>2. "jira_issues_write" \in sets BY <1>2 DEF Smoke!Basic, Smoke!SmokeToolsets
    <3> HIDE DEF sets
    <3> QED BY <1>2, <3>1, <3>2, EntryFacts DEF sets
  <2>3. Enabled("jira_list_issue_worklogs")
    <3>1. Smoke!T("jira_list_issue_worklogs", "jira_issue_worklogs_read", "read_only")
          \in Smoke!JiraProjectTools
      BY DEF Smoke!JiraProjectTools
    <3>2. "jira_issue_worklogs_read" \in sets BY <1>2 DEF Smoke!Basic, Smoke!SmokeToolsets
    <3> HIDE DEF sets
    <3> QED BY <1>2, <3>1, <3>2, EntryFacts DEF sets
  <2>4. Enabled("jira_list_agile_boards")
    <3>1. Smoke!T("jira_list_agile_boards", "jira_agile_boards_read", "read_only")
          \in Smoke!JiraWorkTools
      BY DEF Smoke!JiraWorkTools
    <3>2. "jira_agile_boards_read" \in sets BY <1>2 DEF Smoke!Basic, Smoke!SmokeToolsets
    <3> HIDE DEF sets
    <3> QED BY <1>2, <3>1, <3>2, EntryFacts DEF sets
  <2>5. Enabled("jira_get_issue_timeline")
    <3>1. Smoke!T("jira_get_issue_timeline", "jira_issue_metrics_read", "read_only")
          \in Smoke!JiraWorkTools
      BY DEF Smoke!JiraWorkTools
    <3>2. "jira_issue_metrics_read" \in sets BY <1>2 DEF Smoke!Basic, Smoke!SmokeToolsets
    <3> HIDE DEF sets
    <3> QED BY <1>2, <3>1, <3>2, EntryFacts DEF sets
  <2>6. Enabled("jira_get_issue_sla_metrics")
    <3>1. Smoke!T("jira_get_issue_sla_metrics", "jira_issue_sla_read", "read_only")
          \in Smoke!JiraWorkTools
      BY DEF Smoke!JiraWorkTools
    <3>2. "jira_issue_sla_read" \in sets BY <1>2 DEF Smoke!Basic, Smoke!SmokeToolsets
    <3> HIDE DEF sets
    <3> QED BY <1>2, <3>1, <3>2, EntryFacts DEF sets
  <2>7. tools = {"jira_get_issue",
                        "jira_create_issue",
                        "jira_list_issue_worklogs",
                        "jira_list_agile_boards",
                        "jira_get_issue_timeline",
                        "jira_get_issue_sla_metrics"}
    BY <1>2 DEF Smoke!Calls, Smoke!WriteTool, Smoke!ToSet
  <2> HIDE DEF tools, Enabled
  <2>8. \A t \in tools : Enabled(t) BY <2>1, <2>2, <2>3, <2>4, <2>5, <2>6, <2>7
  <2> QED BY <1>1, <2>8 DEF tools, Enabled
<1>3. CASE service = "confluence"
  <2>1. Enabled("confluence_search_content")
    <3>1. Smoke!T("confluence_search_content", "confluence_content_read", "read_only")
          \in Smoke!ConfluencePageTools
      BY DEF Smoke!ConfluencePageTools
    <3>2. "confluence_content_read" \in sets BY <1>3 DEF Smoke!Basic, Smoke!SmokeToolsets
    <3> HIDE DEF sets
    <3> QED BY <1>3, <3>1, <3>2, EntryFacts DEF sets
  <2>2. Enabled("confluence_get_page")
    <3>1. Smoke!T("confluence_get_page", "confluence_content_read", "read_only")
          \in Smoke!ConfluencePageTools
      BY DEF Smoke!ConfluencePageTools
    <3>2. "confluence_content_read" \in sets BY <1>3 DEF Smoke!Basic, Smoke!SmokeToolsets
    <3> HIDE DEF sets
    <3> QED BY <1>3, <3>1, <3>2, EntryFacts DEF sets
  <2>3. Enabled("confluence_create_page")
    <3>1. Smoke!T("confluence_create_page", "confluence_content_write", "additive_write")
          \in Smoke!ConfluencePageTools
      BY DEF Smoke!ConfluencePageTools
    <3>2. "confluence_content_write" \in sets BY <1>3 DEF Smoke!Basic, Smoke!SmokeToolsets
    <3> HIDE DEF sets
    <3> QED BY <1>3, <3>1, <3>2, EntryFacts DEF sets
  <2>4. tools = {"confluence_search_content",
                        "confluence_get_page",
                        "confluence_create_page"}
    BY <1>3 DEF Smoke!Calls, Smoke!WriteTool, Smoke!ToSet
  <2> HIDE DEF tools, Enabled
  <2>5. \A t \in tools : Enabled(t) BY <2>1, <2>2, <2>3, <2>4
  <2> QED BY <1>1, <2>5 DEF tools, Enabled
<1>4. CASE service = "gitlab"
  <2>0. service # "jira" /\ service # "confluence" BY <1>4
  <2>1. Enabled("gitlab_get_current_user")
    <3>1. Smoke!T("gitlab_get_current_user", "gitlab_projects_read", "read_only")
          \in Smoke!GitlabTools
      BY DEF Smoke!GitlabTools
    <3>2. "gitlab_projects_read" \in sets BY <1>4, <2>0 DEF Smoke!Basic, Smoke!SmokeToolsets
    <3> HIDE DEF sets
    <3> QED BY <1>4, <2>0, <3>1, <3>2, EntryFacts DEF sets
  <2>2. Enabled("gitlab_get_project")
    <3>1. Smoke!T("gitlab_get_project", "gitlab_projects_read", "read_only") \in Smoke!GitlabTools
      BY DEF Smoke!GitlabTools
    <3>2. "gitlab_projects_read" \in sets BY <1>4, <2>0 DEF Smoke!Basic, Smoke!SmokeToolsets
    <3> HIDE DEF sets
    <3> QED BY <1>4, <2>0, <3>1, <3>2, EntryFacts DEF sets
  <2>3. Enabled("gitlab_list_merge_requests")
    <3>1. Smoke!T("gitlab_list_merge_requests", "gitlab_merge_requests_read", "read_only")
          \in Smoke!GitlabTools
      BY DEF Smoke!GitlabTools
    <3>2. "gitlab_merge_requests_read" \in sets BY <1>4, <2>0 DEF Smoke!Basic, Smoke!SmokeToolsets
    <3> HIDE DEF sets
    <3> QED BY <1>4, <2>0, <3>1, <3>2, EntryFacts DEF sets
  <2>4. Enabled("gitlab_create_merge_request")
    <3>1. Smoke!T("gitlab_create_merge_request", "gitlab_merge_requests_write", "additive_write")
          \in Smoke!GitlabTools
      BY DEF Smoke!GitlabTools
    <3>2. "gitlab_merge_requests_write" \in sets BY <1>4, <2>0 DEF Smoke!Basic, Smoke!SmokeToolsets
    <3> HIDE DEF sets
    <3> QED BY <1>4, <2>0, <3>1, <3>2, EntryFacts DEF sets
  <2>5. tools = {"gitlab_get_current_user",
                        "gitlab_get_project",
                        "gitlab_list_merge_requests",
                        "gitlab_create_merge_request"}
    BY <1>4, <2>0 DEF Smoke!Calls, Smoke!WriteTool, Smoke!ToSet
  <2> HIDE DEF tools, Enabled
  <2>6. \A t \in tools : Enabled(t) BY <2>1, <2>2, <2>3, <2>4, <2>5
  <2> QED BY <1>1, <2>6 DEF tools, Enabled
<1> QED BY <1>2, <1>3, <1>4 DEF ServiceNames

\* The sessions depend on the command alone.
LEMMA SessionsKept ==
  ASSUME UNCHANGED command
  PROVE  (Smoke!Sessions)' = Smoke!Sessions
BY DEF Smoke!Sessions

\* The session and the phase at work.
LEMMA PlaceFacts ==
  ASSUME SmokeAt
  PROVE  /\ Smoke!Service \in ServiceNames /\ Smoke!Phases \in PhaseLists
         /\ Len(Smoke!Sessions) \in Nat
         /\ \A i \in 1..Len(Smoke!Sessions) :
                /\ Smoke!Sessions[i].service \in ServiceNames
                /\ Smoke!Sessions[i].phases \in PhaseLists
         /\ Smoke!Kind \in {"stdio", "http", "restricted", "text", "json", "controls"}
<1>1. Smoke!Sessions \in Seq(SessionSet) BY SessionsFacts DEF SmokeAt
<1>2. ASSUME NEW i \in 1..Len(Smoke!Sessions)
      PROVE  Smoke!Sessions[i].service \in ServiceNames /\ Smoke!Sessions[i].phases \in PhaseLists
  BY <1>1, ElementOfSeq, SessionFields
<1>3. Smoke!Service \in ServiceNames /\ Smoke!Phases \in PhaseLists
  BY <1>2 DEF SmokeAt, Smoke!Service, Smoke!Phases
<1>4. Smoke!Kind \in {"stdio", "http", "restricted", "text", "json", "controls"}
  BY <1>3, PhaseFacts DEF SmokeAt, Smoke!Kind
<1> QED BY <1>1, <1>2, <1>3, <1>4, LenProperties

\* The steps of a phase.
LEMMA StepFacts ==
  ASSUME NEW kind \in {"stdio", "http", "restricted", "text", "json", "controls"},
         NEW service \in ServiceNames, NEW n \in 1..Len(Smoke!Steps(kind, service))
  PROVE  LET s == Smoke!Steps(kind, service)
         IN  /\ Len(s) \in Nat /\ Len(s) > 1 /\ s[1] = "start"
             /\ s[n] = "record" => kind \in {"restricted", "controls"} /\ n = Len(s)
             /\ s[n] = "output" => kind \in {"text", "json", "controls"}
             /\ kind \in {"text", "json", "controls"} => s[n] \in {"start", "output", "record"}
             /\ kind = "restricted" /\ s[n] # "record" => n < Len(s)
             /\ kind = "controls" /\ s[n] = "start" => n < Len(s) /\ s[n + 1] = "output"
             /\ kind = "controls" /\ s[n] = "output" => n < Len(s) /\ s[n + 1] = "record"
             /\ s[n] = Smoke!WriteTool(service) => kind = "restricted"
<1> DEFINE s == Smoke!Steps(kind, service)
           c == Smoke!Calls(service)
           w == Smoke!WriteTool(service)
           Word == {"start", "health", "initialize", "initialized", "list", "output", "record"}
           D == Word \cup {c[i] : i \in 1..Len(c)}
           Claim == /\ Len(s) \in Nat /\ Len(s) > 1 /\ s[1] = "start"
                    /\ s[n] = "record" => kind \in {"restricted", "controls"} /\ n = Len(s)
                    /\ s[n] = "output" => kind \in {"text", "json", "controls"}
                    /\ kind \in {"text", "json", "controls"} =>
                           s[n] \in {"start", "output", "record"}
                    /\ kind = "restricted" /\ s[n] # "record" => n < Len(s)
                    /\ kind = "controls" /\ s[n] = "start" =>
                           n < Len(s) /\ s[n + 1] = "output"
                    /\ kind = "controls" /\ s[n] = "output" =>
                           n < Len(s) /\ s[n + 1] = "record"
                    /\ s[n] = w => kind = "restricted"
<1>0. n \in 1..Len(s) OBVIOUS
<1>1. /\ c \in Seq({c[i] : i \in 1..Len(c)}) /\ w \notin Word
      /\ \A i \in 1..Len(c) : c[i] \notin Word /\ c[i] # w
  BY CallsFacts
<1> SUFFICES Claim OBVIOUS
<1>2. CASE kind \in {"stdio", "http"}
  <2> DEFINE a == IF kind = "stdio" THEN <<"start", "initialize", "list">>
                  ELSE <<"start", "health", "initialize", "initialized", "list">>
             A == {"start", "health", "initialize", "initialized", "list"}
  <2>1. s = a \o c BY <1>2 DEF Smoke!Steps, Smoke!StdioSteps, Smoke!HttpSteps
  <2>2. a \in Seq(A) /\ Len(a) \in Nat /\ Len(a) > 1 /\ a[1] = "start"
    <3>1. CASE kind = "stdio"
      <4>1. a = <<"start", "initialize", "list">> BY <3>1
      <4> HIDE DEF a
      <4> QED BY <4>1
    <3>2. CASE kind = "http"
      <4>1. a = <<"start", "health", "initialize", "initialized", "list">> BY <3>2
      <4> HIDE DEF a
      <4> QED BY <4>1
    <3> QED BY <1>2, <3>1, <3>2
  <2> HIDE DEF s, a
  <2>3. c \in Seq(D) /\ a \in Seq(D)
    <3> HIDE DEF c
    <3>1. A \subseteq D /\ {c[i] : i \in 1..Len(c)} \subseteq D OBVIOUS
    <3> HIDE DEF A, D
    <3> QED BY <1>1, <2>2, <3>1, SeqMonotonic
  <2> HIDE DEF c, w, D
  <2>4. /\ Len(s) = Len(a) + Len(c) /\ Len(c) \in Nat
        /\ \A i \in 1..Len(s) : s[i] = IF i <= Len(a) THEN a[i] ELSE c[i - Len(a)]
    <3>1. Len(a \o c) = Len(a) + Len(c) BY <2>3, ConcatProperties, Zenon
    <3>2. Len(c) \in Nat BY <2>3, LenProperties
    <3>3. \A i \in 1..(Len(a) + Len(c)) :
              (a \o c)[i] = IF i <= Len(a) THEN a[i] ELSE c[i - Len(a)]
      BY <2>3, ConcatProperties, Zenon
    <3> QED BY <2>1, <3>1, <3>2, <3>3
  <2>5. s[1] = "start" BY <2>2, <2>4
  <2>6. s[n] \in A \/ \E i \in 1..Len(c) : s[n] = c[i]
    <3>1. CASE n <= Len(a)
      <4>1. n \in 1..Len(a) BY <1>0, <2>2, <2>4, <3>1
      <4>2. a[n] \in A BY <2>2, <4>1, ElementOfSeq
      <4> QED BY <1>0, <2>4, <3>1, <4>2
    <3>2. CASE ~(n <= Len(a))
      <4>1. n - Len(a) \in 1..Len(c) BY <1>0, <2>2, <2>4, <3>2
      <4> QED BY <1>0, <2>4, <3>2, <4>1
    <3> QED BY <3>1, <3>2
  <2>7. s[n] \notin {"record", "output", w} BY <1>1, <2>6
  <2>8. Len(s) \in Nat /\ Len(s) > 1
    <3>1. Len(a) \in Nat /\ Len(a) > 1 BY <2>2
    <3>2. Len(s) = Len(a) + Len(c) /\ Len(c) \in Nat BY <2>4
    <3> QED BY <3>1, <3>2
  <2> QED BY <1>2, <2>5, <2>7, <2>8
<1>3. CASE kind \in {"text", "json"}
  <2>1. s = <<"start", "output">> BY <1>3, CliSteps
  <2> HIDE DEF s, c, w, D
  <2>2. Len(s) = 2 BY <2>1
  <2>3. n \in {1, 2} BY <1>0, <2>2
  <2>4. w \notin Word BY <1>1
  <2> QED BY <1>3, <2>1, <2>2, <2>3, <2>4
<1>4. CASE kind = "controls"
  <2>1. s = <<"start", "output", "record">> BY <1>4, CliSteps
  <2> HIDE DEF s, c, w, D
  <2>2. Len(s) = 3 BY <2>1
  <2>3. n \in {1, 2, 3} BY <1>0, <2>2
  <2>4. w \notin Word BY <1>1
  <2> QED BY <1>4, <2>1, <2>2, <2>3, <2>4
<1>5. CASE kind = "restricted"
  <2>1. s = <<"start", "initialize", "list", w, "record">> BY <1>5, RestrictedSteps
  <2> HIDE DEF s, c, w, D
  <2>2. Len(s) = 5 BY <2>1
  <2>3. n \in {1, 2, 3, 4, 5} BY <1>0, <2>2
  <2>4. w \notin Word BY <1>1
  <2> QED BY <1>5, <2>1, <2>2, <2>3, <2>4
<1> QED BY <1>2, <1>3, <1>4, <1>5

Here == <<at.session, at.phase>>
StepCount == Len(Smoke!Steps(Smoke!Kind, Smoke!Service))

\* A step that went as expected leads to the next one; any other ends the phase.
Moves ==
    /\ at.step < StepCount
    /\ at' = [at EXCEPT !.step = @ + 1]
    /\ UNCHANGED <<pc, verdict>>
PhaseEnds(v) == pc' = "close" /\ verdict' = v /\ UNCHANGED at

\* What the runner works at depends on its command and its place alone.
LEMMA PlaceKept ==
  ASSUME UNCHANGED <<command, at>>
  PROVE  /\ Smoke!Service' = Smoke!Service /\ Smoke!Phases' = Smoke!Phases
         /\ Smoke!Kind' = Smoke!Kind /\ Smoke!Step' = Smoke!Step
         /\ StepCount' = StepCount /\ Here' = Here
BY SessionsKept DEF Smoke!Service, Smoke!Phases, Smoke!Kind, Smoke!Step, StepCount, Here

\* A step further is a step of the same phase.
LEMMA PlaceMoved ==
  ASSUME SmokeAt, UNCHANGED command, Moves
  PROVE  /\ Smoke!Service' = Smoke!Service /\ Smoke!Phases' = Smoke!Phases
         /\ Smoke!Kind' = Smoke!Kind /\ StepCount' = StepCount /\ Here' = Here
         /\ Smoke!Step' = Smoke!Steps(Smoke!Kind, Smoke!Service)[at.step + 1]
         /\ at'.session = at.session /\ at'.phase = at.phase
         /\ at'.step = at.step + 1 /\ at'.step \in 1..StepCount
         /\ at' \in [session : Nat, phase : Nat, step : Nat]
<1>1. /\ at'.session = at.session /\ at'.phase = at.phase /\ at'.step = at.step + 1
      /\ at' \in [session : Nat, phase : Nat, step : Nat]
  BY DEF Moves, SmokeAt
<1>2. Smoke!Service' = Smoke!Service /\ Smoke!Phases' = Smoke!Phases
  BY <1>1, SessionsKept DEF Smoke!Service, Smoke!Phases
<1>3. Smoke!Kind' = Smoke!Kind BY <1>1, <1>2 DEF Smoke!Kind
<1>4. StepCount' = StepCount /\ Here' = Here BY <1>1, <1>2, <1>3 DEF StepCount, Here
<1>5. Smoke!Step' = Smoke!Steps(Smoke!Kind, Smoke!Service)[at.step + 1]
  BY <1>1, <1>2, <1>3 DEF Smoke!Step
<1>6. at'.step \in 1..StepCount
  <2>1. StepCount \in Nat /\ at.step \in 1..StepCount
    BY PlaceFacts, StepFacts DEF SmokeAt, StepCount
  <2> QED BY <1>1, <2>1 DEF Moves
<1> QED BY <1>1, <1>2, <1>3, <1>4, <1>5, <1>6

\* Within a phase the runner stays where it may stand.
LEMMA StaysMoving ==
  ASSUME SmokeAt, pc = "run", ~hung, Moves, UNCHANGED <<command, mocks, exit, hung>>,
         children' \subseteq {Here}
  PROVE  SmokeAt'
<1> USE PlaceMoved
<1>1. /\ at'.session \in 1..Len(Smoke!Sessions)' /\ at'.phase \in 1..Len(Smoke!Phases)'
  BY SessionsKept DEF SmokeAt
<1>2. pc' = "run" /\ verdict' = verdict BY DEF Moves
<1>3. children' \subseteq {<<at'.session, at'.phase>>} BY DEF Here
<1>4. at'.step \in 1..Len(Smoke!Steps(Smoke!Kind, Smoke!Service)') BY DEF StepCount
<1> QED BY <1>1, <1>2, <1>3, <1>4 DEF SmokeAt

\* A phase that ends here keeps the place; its child is closed next.
LEMMA StaysEnding ==
  ASSUME SmokeAt, pc = "run", ~hung, NEW v \in {"ok", "failed"}, PhaseEnds(v),
         UNCHANGED <<command, mocks, exit, hung>>, children' \subseteq {Here}
  PROVE  SmokeAt'
<1>1. UNCHANGED <<command, at>> BY DEF PhaseEnds
<1>2. /\ Smoke!Service' = Smoke!Service /\ Smoke!Phases' = Smoke!Phases
      /\ Smoke!Kind' = Smoke!Kind /\ (Smoke!Sessions)' = Smoke!Sessions
  BY <1>1, PlaceKept, SessionsKept
<1>3. children' \subseteq {<<at'.session, at'.phase>>} BY <1>1 DEF Here
<1>4. pc' = "close" /\ verdict' = v BY DEF PhaseEnds
<1> QED BY <1>1, <1>2, <1>3, <1>4 DEF SmokeAt

\* What a step that sends something adds to the requests received.
LEMMA SentFacts ==
  ASSUME NEW R, Smoke!Sent(R)
  PROVE  (Smoke!Requested)' = Smoke!Requested \cup R
<1> DEFINE Note(r) == [by |-> at, request |-> r]
           new == {Note(r) : r \in R}
<1>1. record' = record \cup new BY DEF Smoke!Sent
<1>2. \A r : Note(r).request = r OBVIOUS
<1> HIDE DEF Note
<1>3. {n.request : n \in new} = R BY <1>2
<1>4. (Smoke!Requested)' = {n.request : n \in record'} BY DEF Smoke!Requested
<1>5. Smoke!Requested = {n.request : n \in record} BY DEF Smoke!Requested
<1> HIDE DEF new
<1> QED BY <1>1, <1>3, <1>4, <1>5

\* What the child lists.
LEMMA ListingFacts ==
  ASSUME SmokeAt
  PROVE  /\ \A names \in Smoke!OtherListings : ~Smoke!ListingAsExpected(names)
         /\ Smoke!Kind = "restricted" => ~Smoke!Runs(Smoke!WriteTool(Smoke!Service))
         /\ dotenv = {} =>
               /\ Smoke!ListingAsExpected(Smoke!Listing)
               /\ \A t \in Smoke!ToSet(Smoke!Calls(Smoke!Service)) : Smoke!Runs(t)
<1> DEFINE service == Smoke!Service
           kind == Smoke!Kind
           w == Smoke!WriteTool(service)
           calls == Smoke!ToSet(Smoke!Calls(service))
           listing == Smoke!Listing
           sets == Smoke!Basic \cup Smoke!SmokeToolsets(service)
           enabled(D) == Smoke!EnabledBy(sets, {}, D)
<1>1. service \in ServiceNames BY PlaceFacts
<1>2. /\ calls \cup {w} \subseteq Smoke!ToolsOf[service]
      /\ \A t \in calls \cup {w} : \A D : t \notin D => t \in enabled(D)
      /\ \A D : enabled(D) \cap D = {}
  <2> HIDE DEF service
  <2> QED BY <1>1, SmokeEnables
<1>3. listing = enabled(Smoke!Disabled) \cap Smoke!ToolsOf[service] BY DEF Smoke!Listing
<1>4. kind = "restricted" => Smoke!Disabled = {w} BY DEF Smoke!Disabled
<1>5. kind = "restricted" => w \notin listing
  <2> HIDE DEF listing, enabled, kind, w
  <2> QED BY <1>2, <1>3, <1>4
<1>6. dotenv = {} => Smoke!Disabled = IF kind = "restricted" THEN {w} ELSE {}
  BY DEF Smoke!Disabled
<1>7. w \notin calls
  <2>1. \A i \in 1..Len(Smoke!Calls(service)) : Smoke!Calls(service)[i] # w
    BY <1>1, CallsFacts
  <2>2. DOMAIN Smoke!Calls(service) = 1..Len(Smoke!Calls(service))
    BY <1>1, CallsFacts, LenProperties
  <2> HIDE DEF service, w
  <2> QED BY <2>1, <2>2 DEF Smoke!ToSet
<1>8. dotenv = {} => calls \subseteq listing /\ (w \in listing <=> kind # "restricted")
  <2> HIDE DEF listing, enabled, kind, w, calls
  <2> QED BY <1>2, <1>3, <1>5, <1>6, <1>7
<1>9. \A names : Smoke!ListingAsExpected(names) <=>
          calls \subseteq names /\ (w \in names <=> kind # "restricted")
  BY DEF Smoke!ListingAsExpected
<1>10. \A names \in Smoke!OtherListings :
          \/ \E t \in listing \cap (calls \cup {w}) : names = listing \ {t}
          \/ kind = "restricted" /\ names = listing \cup {w}
  BY DEF Smoke!OtherListings
<1>11. \A t : Smoke!Runs(t) <=> t \in listing BY DEF Smoke!Runs
<1> HIDE DEF listing, enabled, kind, w, calls
<1>12. \A names \in Smoke!OtherListings : ~Smoke!ListingAsExpected(names)
  BY <1>5, <1>9, <1>10
<1>13. kind = "restricted" => ~Smoke!Runs(w) BY <1>5, <1>11
<1>14. dotenv = {} => Smoke!ListingAsExpected(listing) /\ \A t \in calls : Smoke!Runs(t)
  BY <1>8, <1>9, <1>11
<1> QED BY <1>12, <1>13, <1>14 DEF listing, kind, w, calls

\* What is judged of a deviation depends on the command alone.
LEMMA JudgedAlike ==
  ASSUME UNCHANGED command, NEW d
  PROVE  SetsOutToFind(d)' <=> SetsOutToFind(d)
BY SessionsKept DEF SetsOutToFind

\* A step that went as expected moves on or ends the last one; any other ends the phase.
LEMMA WentFacts ==
  ASSUME SmokeAt
  PROVE  /\ Smoke!Went(TRUE) =>
                Moves \/ (at.step = StepCount /\ PhaseEnds("ok"))
         /\ Smoke!Went(FALSE) => PhaseEnds("failed")
<1>1. StepCount \in Nat /\ at.step \in 1..StepCount
  BY PlaceFacts, StepFacts DEF SmokeAt, StepCount
<1> QED BY <1>1 DEF Smoke!Went, Moves, PhaseEnds, StepCount

\* Where a phase goes on or ends, what has been found so far is still found.
LEMMA FoundKept ==
  ASSUME SmokeAt, SmokeFound, pc = "run", ~hung, UNCHANGED command,
         Smoke!Requested \subseteq (Smoke!Requested)',
         Moves \/ PhaseEnds("ok") \/ PhaseEnds("failed"),
         Smoke!Kind = "restricted" /\ PhaseEnds("ok") =>
             Smoke!Forbidden(Smoke!Service) \notin Smoke!Requested,
         Smoke!Kind = "controls" /\ Smoke!Step = "record" /\ (Moves \/ PhaseEnds("ok")) =>
             Smoke!Written(Smoke!Service) \in Smoke!Requested
  PROVE  \A d \in deviations :
             SetsOutToFind(d)' => verdict' = "failed" \/ hung' \/ Pending(d)'
<1> SUFFICES ASSUME NEW d \in deviations, SetsOutToFind(d)', verdict' # "failed"
             PROVE  Pending(d)'
  OBVIOUS
<1>1. verdict = "ok" BY DEF SmokeAt
<1>2. Pending(d) BY <1>1, JudgedAlike DEF SmokeFound
<1>3. ~PhaseEnds("failed") BY DEF PhaseEnds
<1>4. /\ d.session = at.session /\ d.step[2] = "stray"
      /\ Smoke!Forbidden(Smoke!Service) \in Smoke!Requested
  BY <1>2, <1>3 DEF Pending
<1>5. CASE Moves
  <2>1. at'.session = at.session /\ Smoke!Service' = Smoke!Service BY <1>5, PlaceMoved
  <2>2. pc' = "run" BY <1>5 DEF Moves
  <2> QED BY <1>4, <2>1, <2>2 DEF Pending
<1>6. CASE PhaseEnds("ok")
  <2>1. UNCHANGED <<command, at>> /\ pc' = "close" BY <1>6 DEF PhaseEnds
  <2>2. Smoke!Service' = Smoke!Service /\ Smoke!Kind' = Smoke!Kind BY <2>1, PlaceKept
  <2>3. Smoke!Kind # "restricted" BY <1>4, <1>6
  <2> QED BY <1>4, <2>1, <2>2, <2>3 DEF Pending
<1> QED BY <1>3, <1>5, <1>6

SmokeInv == SmokeAt /\ SmokeFound /\ SmokeReason

\* A phase has a step to start with.
LEMMA FirstStep ==
  ASSUME NEW kind \in {"stdio", "http", "restricted", "text", "json", "controls"},
         NEW service \in ServiceNames
  PROVE  1 \in 1..Len(Smoke!Steps(kind, service)) /\ Smoke!Steps(kind, service)[1] = "start"
<1> DEFINE s == Smoke!Steps(kind, service)
           c == Smoke!Calls(service)
<1>1. CASE kind \in {"text", "json", "controls"}
  <2>1. s \in {<<"start", "output">>, <<"start", "output", "record">>} BY <1>1, CliSteps
  <2>2. 1 \in 1..Len(s) /\ s[1] = "start"
    <3> HIDE DEF s
    <3> QED BY <2>1
  <2> QED BY <2>2
<1>2. CASE kind = "restricted"
  <2> DEFINE w == Smoke!WriteTool(service)
  <2>1. s = <<"start", "initialize", "list", w, "record">> BY <1>2, RestrictedSteps
  <2>2. 1 \in 1..Len(s) /\ s[1] = "start"
    <3> HIDE DEF s, w
    <3> QED BY <2>1
  <2> QED BY <2>2
<1>3. CASE kind \in {"stdio", "http"}
  <2>1. PICK a \in {<<"start", "initialize", "list">>,
                    <<"start", "health", "initialize", "initialized", "list">>} : s = a \o c
    BY <1>3 DEF Smoke!Steps, Smoke!StdioSteps, Smoke!HttpSteps
  <2> DEFINE A == {"start", "health", "initialize", "initialized", "list"}
             D == A \cup {c[i] : i \in 1..Len(c)}
  <2>2. a \in Seq(A) /\ Len(a) \in Nat /\ Len(a) > 1 /\ a[1] = "start"
    <3>1. CASE a = <<"start", "initialize", "list">> BY <3>1
    <3>2. CASE a = <<"start", "health", "initialize", "initialized", "list">> BY <3>2
    <3> QED BY <3>1, <3>2
  <2>3. c \in Seq({c[i] : i \in 1..Len(c)}) BY CallsFacts
  <2>4. a \in Seq(D) /\ c \in Seq(D)
    <3>1. A \subseteq D /\ {c[i] : i \in 1..Len(c)} \subseteq D OBVIOUS
    <3> HIDE DEF c, A, D
    <3> QED BY <2>2, <2>3, <3>1, SeqMonotonic
  <2> HIDE DEF c, D
  <2>5. Len(a \o c) = Len(a) + Len(c)
    BY <2>4, ConcatProperties, Zenon
  <2>6. \A i \in 1..(Len(a) + Len(c)) : (a \o c)[i] = IF i <= Len(a) THEN a[i] ELSE c[i - Len(a)]
    BY <2>4, ConcatProperties, Zenon
  <2>7. Len(c) \in Nat BY <2>4, LenProperties
  <2>8. 1 \in 1..Len(a \o c) /\ (a \o c)[1] = "start" BY <2>2, <2>5, <2>6, <2>7
  <2> QED BY <2>1, <2>8
<1> QED BY <1>1, <1>2, <1>3

\* A deviation is noted with its session, phase and step.
LEMMA DeviatesFacts ==
  ASSUME NEW what, Smoke!Deviates(what)
  PROVE  \E d : /\ deviations' = deviations \cup {d}
                /\ d.session = at.session /\ d.kind = Smoke!Kind
                /\ d.step = <<IF pc = "run" THEN Smoke!Step ELSE pc, what>>
<1> DEFINE x == IF pc = "run" THEN Smoke!Step ELSE pc
           here == [session |-> at.session, kind |-> Smoke!Kind, step |-> x]
           d == [here EXCEPT !.step = <<@, what>>]
<1>1. deviations' = deviations \cup {d} BY Zenon DEF Smoke!Deviates, Smoke!Here
<1>2. d.session = at.session /\ d.kind = Smoke!Kind /\ d.step = <<x, what>>
  <2> HIDE DEF x
  <2> QED OBVIOUS
<1> HIDE DEF d
<1> QED BY <1>1, <1>2

\* Nothing that the smoke sets out to find is left over where no phase runs.
LEMMA NoneLeft ==
  ASSUME SmokeAt, SmokeFound, verdict = "ok",
         \/ pc \notin {"run", "close"}
         \/ pc = "close" /\ at.phase = Len(Smoke!Phases)
  PROVE  \A d \in deviations : ~SetsOutToFind(d)
<1> SUFFICES ASSUME NEW d \in deviations, SetsOutToFind(d) PROVE FALSE
  OBVIOUS
<1>1. pc # "run" OBVIOUS
<1>2. ~hung BY <1>1 DEF SmokeAt
<1>3. Pending(d) BY <1>2 DEF SmokeFound
<1>4. /\ pc = "close" /\ at.phase = Len(Smoke!Phases)
      /\ d.session = at.session /\ d.step[2] = "stray" /\ Smoke!Kind # "restricted"
  BY <1>1, <1>3 DEF Pending
<1>5. PICK i \in DOMAIN Smoke!Phases : Smoke!Phases[i] = "restricted"
  BY <1>4 DEF SetsOutToFind, Smoke!Phases
<1>6. i = Len(Smoke!Phases) BY <1>5, PlaceFacts, PhaseFacts
<1> QED BY <1>4, <1>5, <1>6 DEF Smoke!Kind

\* Building the program and starting the mock keep the invariant.
LEMMA BuildStep ==
  ASSUME SmokeInv, Smoke!Build \/ Smoke!Bind
  PROVE  SmokeInv'
<1> USE DEF SmokeInv
<1>1. /\ pc \in {"build", "bind"} /\ UNCHANGED <<command, at, verdict, children, hung, deviations>>
      /\ dotenv' = dotenv /\ verdict = "ok" /\ ~hung /\ exit = -1
  BY DEF Smoke!Build, Smoke!Bind, Smoke!own, SmokeAt
<1>2. /\ Smoke!Service' = Smoke!Service /\ Smoke!Phases' = Smoke!Phases
      /\ Smoke!Kind' = Smoke!Kind /\ Smoke!Step' = Smoke!Step
      /\ (Smoke!Sessions)' = Smoke!Sessions
  BY <1>1, PlaceKept, SessionsKept
<1>3. \/ pc' = "bind" /\ UNCHANGED <<exit, outside, mocks, record>>
      \/ pc' = "run" /\ record' = {} /\ UNCHANGED <<exit, outside>>
             /\ pc = "bind" /\ mocks' = mocks \cup {at.session}
      \/ pc' = "done" /\ exit' = 1 /\ outside' # {} /\ UNCHANGED <<mocks, record>>
  BY DEF Smoke!Build, Smoke!Bind, Smoke!End, Smoke!own
<1>4. pc \notin {"run", "close"} BY <1>1
<1>5. SmokeAt'
  <2>1. at.step \in 1..Len(Smoke!Steps(Smoke!Kind, Smoke!Service)') BY <1>2 DEF SmokeAt
  <2>2. /\ command' \in SmokeCommands /\ verdict' \in {"ok", "failed"}
        /\ at' \in [session : Nat, phase : Nat, step : Nat]
        /\ at'.session \in 1..Len((Smoke!Sessions)') /\ at'.phase \in 1..Len(Smoke!Phases')
        /\ at'.step \in 1..Len(Smoke!Steps(Smoke!Kind, Smoke!Service)')
        /\ at'.phase = 1 /\ at'.step = 1
    BY <1>1, <1>2, <2>1 DEF SmokeAt
  <2>3. children' = {} /\ mocks = {} BY <1>1 DEF SmokeAt
  <2>4. ~hung' /\ verdict' # "failed" BY <1>1
  <2>5. /\ pc' \in {"bind", "run", "done"}
        /\ mocks' \subseteq {at'.session} /\ (pc' # "run" => mocks' = {})
        /\ exit' # 0 /\ exit' \in {-1, 0, 1} /\ (exit' = -1 <=> pc' # "done")
    BY <1>1, <1>3, <2>3
  <2> QED BY <2>2, <2>3, <2>4, <2>5 DEF SmokeAt
<1>6. SmokeFound'
  <2>1. \A d \in deviations' : ~SetsOutToFind(d)' BY <1>1, <1>4, NoneLeft, JudgedAlike
  <2>2. pc' = "run" => record' = {} BY <1>3
  <2> QED BY <2>1, <2>2 DEF SmokeFound
<1>7. SmokeReason'
  <2>1. Blameless' => verdict' = "ok" /\ exit' # 1 BY <1>1, <1>3 DEF Blameless
  <2>2. pc' \in {"run", "close"} => pc' = "run" /\ (Smoke!Requested)' = {}
    BY <1>3 DEF Smoke!Requested
  <2>3. Smoke!Step' # "record"
    <3>1. Smoke!Step = Smoke!Steps(Smoke!Kind, Smoke!Service)[1]
      BY <1>1 DEF SmokeAt, Smoke!Step
    <3>2. Smoke!Step = "start" BY <3>1, PlaceFacts, FirstStep
    <3> QED BY <1>2, <3>2
  <2> QED BY <2>1, <2>2, <2>3 DEF SmokeReason
<1> QED BY <1>5, <1>6, <1>7

\* While a phase runs.
LEMMA RunFactsHere ==
  ASSUME SmokeAt, pc = "run"
  PROVE  /\ verdict = "ok" /\ exit = -1
         /\ at.step \in 1..StepCount /\ StepCount \in Nat
         /\ Smoke!Step = Smoke!Steps(Smoke!Kind, Smoke!Service)[at.step]
         /\ Smoke!Step = "start" => ~hung
         /\ Smoke!Step = "record" =>
                Smoke!Kind \in {"restricted", "controls"} /\ at.step = StepCount /\ ~hung
         /\ Smoke!Step = "output" => Smoke!Kind \in {"text", "json", "controls"}
         /\ ~OverMcp => Smoke!Step \in {"start", "output", "record"}
         /\ Smoke!Kind = "restricted" /\ Smoke!Step # "record" => at.step < StepCount
         /\ Moves /\ Smoke!Kind = "controls" /\ UNCHANGED command =>
                (Smoke!Step = "start" => Smoke!Step' = "output")
         /\ Smoke!Kind = "controls" /\ Smoke!Step = "output" /\ UNCHANGED command =>
                at.step < StepCount /\ (Moves => Smoke!Step' = "record")
         /\ Smoke!Step = Smoke!WriteTool(Smoke!Service) => Smoke!Kind = "restricted"
<1> DEFINE kind == Smoke!Kind
           service == Smoke!Service
           n == at.step
           s == Smoke!Steps(kind, service)
<1>1. /\ kind \in {"stdio", "http", "restricted", "text", "json", "controls"}
      /\ service \in ServiceNames
  BY PlaceFacts
<1>2. n \in 1..Len(s) /\ verdict = "ok" /\ exit = -1 BY DEF SmokeAt
<1>3. Smoke!Step = s[n] /\ StepCount = Len(s) BY DEF Smoke!Step, StepCount
<1>4. hung => Smoke!Step \notin {"start", "record"} BY DEF SmokeAt
<1>5. Moves /\ UNCHANGED command => Smoke!Step' = s[n + 1] BY PlaceMoved
<1>6. OverMcp <=> kind \in {"stdio", "http", "restricted"} BY DEF OverMcp
<1>7. /\ Len(s) \in Nat
      /\ s[n] = "record" => kind \in {"restricted", "controls"} /\ n = Len(s)
      /\ s[n] = "output" => kind \in {"text", "json", "controls"}
      /\ kind \in {"text", "json", "controls"} => s[n] \in {"start", "output", "record"}
      /\ kind = "restricted" /\ s[n] # "record" => n < Len(s)
      /\ kind = "controls" /\ s[n] = "start" => n < Len(s) /\ s[n + 1] = "output"
      /\ kind = "controls" /\ s[n] = "output" => n < Len(s) /\ s[n + 1] = "record"
      /\ s[n] = Smoke!WriteTool(service) => kind = "restricted"
  <2> HIDE DEF n, kind, service
  <2> QED BY <1>1, <1>2, StepFacts
<1> HIDE DEF n, s, kind
<1> QED BY <1>1, <1>2, <1>3, <1>4, <1>5, <1>6, <1>7 DEF n, s, kind

\* Starting the child keeps the invariant, whether it comes up or not.
LEMMA StartChildStep ==
  ASSUME SmokeInv, Smoke!StartChild
  PROVE  SmokeInv'
<1> USE DEF SmokeInv
<1>1. /\ pc = "run" /\ Smoke!Step = "start" /\ ~hung
      /\ UNCHANGED <<command, mocks, record, exit, hung, dotenv, deviations>>
  BY RunFactsHere DEF Smoke!StartChild
<1>2. (Smoke!Requested)' = Smoke!Requested BY <1>1 DEF Smoke!Requested
<1>3. \/ Smoke!Went(TRUE) /\ children' = children \cup {Here} /\ outside \subseteq outside'
      \/ Smoke!Went(FALSE) /\ outside' # {} /\ children' = children
  BY DEF Smoke!StartChild, Here
<1>4. children' \subseteq {Here} BY <1>3 DEF SmokeAt, Here
<1>5. \/ Moves /\ outside \subseteq outside'
      \/ PhaseEnds("ok") /\ at.step = StepCount /\ outside \subseteq outside'
      \/ PhaseEnds("failed") /\ outside' # {}
  BY <1>3, WentFacts
<1>6. SmokeAt' BY <1>1, <1>4, <1>5, StaysMoving, StaysEnding
<1>7. Smoke!Kind = "restricted" => ~PhaseEnds("ok")
  <2>1. Smoke!Kind = "restricted" => at.step < StepCount BY <1>1, RunFactsHere
  <2>2. PhaseEnds("ok") => at.step = StepCount
    BY <1>1, <1>5 DEF PhaseEnds, Moves
  <2> QED BY <2>1, <2>2, RunFactsHere, <1>1
<1>8. SmokeFound'
  <2>1. \A d \in deviations : SetsOutToFind(d)' => verdict' = "failed" \/ hung' \/ Pending(d)'
    BY <1>1, <1>2, <1>5, <1>7, FoundKept
  <2>2. pc' = "run" /\ Smoke!Kind' = "controls" /\ Smoke!Step' # "record" => record' = {}
    <3>1. pc' = "run" => Moves BY <1>5 DEF PhaseEnds
    <3>2. Smoke!Kind = "controls" => record = {} BY <1>1 DEF SmokeFound
    <3> QED BY <1>1, <3>1, <3>2, PlaceMoved
  <2> QED BY <1>1, <2>1, <2>2 DEF SmokeFound
<1>9. SmokeReason'
  <2>1. Blameless' => verdict' = "ok" /\ exit' # 1
    <3>1. Blameless' => Moves \/ PhaseEnds("ok") BY <1>5 DEF Blameless
    <3> QED BY <1>1, <3>1, RunFactsHere DEF Moves, PhaseEnds
  <2>2. Smoke!Kind' = Smoke!Kind
    BY <1>1, <1>5, PlaceMoved, PlaceKept DEF PhaseEnds
  <2>3. pc' = "run" /\ Smoke!Kind = "controls" => Smoke!Step' # "record"
    <3>1. pc' = "run" => Moves BY <1>5 DEF PhaseEnds
    <3> QED BY <1>1, <3>1, RunFactsHere
  <2> QED BY <1>1, <1>2, <2>1, <2>2, <2>3 DEF SmokeReason, OverMcp
<1> QED BY <1>6, <1>8, <1>9

\* A call of a tool asks the service for nothing but reads.
LEMMA CallFacts ==
  ASSUME SmokeAt, Smoke!IsCall
  PROVE  /\ Smoke!Step # "list"
         /\ \A r \in Smoke!CallSends : r[1] = "GET"
         /\ dotenv = {} => Smoke!CallAsExpected
<1> DEFINE service == Smoke!Service
           c == Smoke!Calls(service)
           w == Smoke!WriteTool(service)
           name == Smoke!Step
<1>1. service \in ServiceNames BY PlaceFacts
<1>2. /\ DOMAIN c = 1..Len(c)
      /\ \A i \in 1..Len(c) :
             /\ c[i] # "list" /\ c[i] # w /\ Smoke!Asks(c[i]) \in Smoke!Served(service)
             /\ Smoke!Asks(c[i])[1] = "GET"
      /\ w # "list"
  <2> HIDE DEF service
  <2> QED BY <1>1, CallsFacts, LenProperties
<1>3. name = w \/ \E i \in 1..Len(c) : name = c[i]
  BY <1>2 DEF Smoke!IsCall, Smoke!ToSet
<1>4. name = w => ~Smoke!Runs(name)
  <2>1. name = w => Smoke!Kind = "restricted"
    BY PlaceFacts, StepFacts DEF SmokeAt, Smoke!Step
  <2> QED BY <2>1, ListingFacts
<1>5. dotenv = {} /\ name # w => Smoke!Runs(name)
  <2>1. name # w => name \in Smoke!ToSet(c) BY DEF Smoke!IsCall
  <2> QED BY <2>1, ListingFacts
<1>6. Smoke!CallSends =
          IF ~Smoke!Runs(name) \/ (Smoke!OverHttp /\ "port" \in outside) THEN {}
          ELSE {IF name = w THEN Smoke!Forbidden(service) ELSE Smoke!Asks(name)}
  BY DEF Smoke!CallSends
<1>7. Smoke!CallAsExpected <=>
          IF name = w THEN ~Smoke!Runs(name)
          ELSE Smoke!Runs(name) /\ Smoke!Asks(name) \in Smoke!Served(service)
  BY DEF Smoke!CallAsExpected
<1> HIDE DEF service, c, w, name
<1>8. name # "list" BY <1>2, <1>3
<1>9. \A r \in Smoke!CallSends : r[1] = "GET" BY <1>2, <1>3, <1>4, <1>6
<1>10. dotenv = {} => Smoke!CallAsExpected BY <1>2, <1>3, <1>4, <1>5, <1>7
<1> QED BY <1>8, <1>9, <1>10 DEF name

\* An answer that is as expected, or is found not to be, keeps the invariant.
LEMMA AnswerStep ==
  ASSUME SmokeInv, Smoke!Answer
  PROVE  SmokeInv'
<1> USE DEF SmokeInv
<1>1. /\ pc = "run" /\ ~hung /\ Smoke!Step \notin {"start", "record", "output"}
      /\ UNCHANGED <<command, children, mocks, exit, hung, dotenv, deviations, outside>>
  BY DEF Smoke!Answer
<1>2. OverMcp /\ Smoke!Kind # "controls" BY <1>1, RunFactsHere DEF OverMcp
<1>3. /\ Moves \/ (at.step = StepCount /\ PhaseEnds("ok")) \/ (dotenv # {} /\ PhaseEnds("failed"))
      /\ Smoke!Requested \subseteq (Smoke!Requested)'
      /\ \A r \in (Smoke!Requested)' : r \in Smoke!Requested \/ r[1] = "GET"
  <2>1. CASE Smoke!IsCall
    <3>1. Smoke!Sent(Smoke!CallSends) /\ Smoke!Went(Smoke!CallAsExpected)
      BY <2>1, CallFacts DEF Smoke!Answer
    <3>2. Smoke!CallAsExpected => Smoke!Went(TRUE) BY <3>1 DEF Smoke!Went
    <3>3. ~Smoke!CallAsExpected => Smoke!Went(FALSE) BY <3>1 DEF Smoke!Went
    <3> QED BY <2>1, <3>1, <3>2, <3>3, CallFacts, SentFacts, WentFacts
  <2>2. CASE ~Smoke!IsCall
    <3>1. record' = record BY <2>2 DEF Smoke!Answer
    <3>2. (Smoke!Requested)' = Smoke!Requested BY <3>1 DEF Smoke!Requested
    <3>3. CASE Smoke!Step = "list"
      <4>1. Smoke!Went(Smoke!ListingAsExpected(Smoke!Listing))
        BY <2>2, <3>3 DEF Smoke!Answer
      <4>2. Smoke!ListingAsExpected(Smoke!Listing) => Smoke!Went(TRUE)
        BY <4>1 DEF Smoke!Went
      <4>3. ~Smoke!ListingAsExpected(Smoke!Listing) => Smoke!Went(FALSE)
        BY <4>1 DEF Smoke!Went
      <4> QED BY <3>2, <4>2, <4>3, ListingFacts, WentFacts
    <3>4. CASE Smoke!Step # "list"
      <4>1. Smoke!Went(TRUE) BY <2>2, <3>4 DEF Smoke!Answer
      <4> QED BY <3>2, <4>1, WentFacts
    <3> QED BY <3>3, <3>4
  <2> QED BY <2>1, <2>2
<1>4. SmokeAt'
  <2>1. children' \subseteq {Here} BY <1>1 DEF SmokeAt, Here
  <2> QED BY <1>1, <1>3, <2>1, StaysMoving, StaysEnding
<1>5. Smoke!Kind = "restricted" => ~PhaseEnds("ok")
  <2>1. Smoke!Kind = "restricted" => at.step < StepCount BY <1>1, RunFactsHere
  <2>2. PhaseEnds("ok") => at.step = StepCount BY <1>1, <1>3 DEF PhaseEnds, Moves
  <2> QED BY <1>1, <2>1, <2>2, RunFactsHere
<1>6. Smoke!Kind' = Smoke!Kind
  BY <1>1, <1>3, PlaceMoved, PlaceKept DEF PhaseEnds
<1>7. SmokeFound'
  <2>1. \A d \in deviations : SetsOutToFind(d)' => verdict' = "failed" \/ hung' \/ Pending(d)'
    BY <1>1, <1>2, <1>3, <1>5, FoundKept
  <2> QED BY <1>1, <1>2, <1>6, <2>1 DEF SmokeFound
<1>8. SmokeReason'
  <2>1. Blameless' => verdict' = "ok" /\ exit' # 1
    <3>1. Blameless' => Moves \/ PhaseEnds("ok") BY <1>1, <1>3 DEF Blameless
    <3> QED BY <1>1, <3>1, RunFactsHere DEF Moves, PhaseEnds
  <2>2. deviations' = {} => \A r \in (Smoke!Requested)' : r[1] = "GET"
    <3>1. deviations = {} => \A r \in Smoke!Requested : r[1] = "GET"
      BY <1>1, <1>2 DEF SmokeReason
    <3> QED BY <1>1, <1>3, <3>1
  <2> QED BY <1>2, <1>6, <2>1, <2>2 DEF SmokeReason
<1> QED BY <1>4, <1>7, <1>8

\* The child deviates: it is found out at once, or waited for without end.
LEMMA OtherAnswerStep ==
  ASSUME SmokeInv, Smoke!ListOther \/ Smoke!AnswerWrong
  PROVE  SmokeInv'
<1> USE DEF SmokeInv
<1>1. /\ pc = "run" /\ ~hung
      /\ UNCHANGED <<command, children, mocks, record, exit, hung, dotenv, outside>>
  BY DEF Smoke!ListOther, Smoke!AnswerWrong
<1>2. PhaseEnds("failed")
  <2>1. CASE Smoke!ListOther
    <3>1. PICK names \in Smoke!OtherListings : Smoke!Went(Smoke!ListingAsExpected(names))
      BY <2>1 DEF Smoke!ListOther
    <3>2. ~Smoke!ListingAsExpected(names) BY ListingFacts
    <3>3. Smoke!Went(FALSE) BY <3>1, <3>2 DEF Smoke!Went
    <3> QED BY <3>3, WentFacts
  <2>2. CASE Smoke!AnswerWrong
    <3>1. Smoke!Went(FALSE) BY <2>2 DEF Smoke!AnswerWrong
    <3> QED BY <3>1, WentFacts
  <2> QED BY <2>1, <2>2
<1>3. deviations' # {}
  BY DeviatesFacts DEF Smoke!ListOther, Smoke!AnswerWrong
<1>4. SmokeAt'
  <2>1. children' \subseteq {Here} BY <1>1 DEF SmokeAt, Here
  <2> QED BY <1>1, <1>2, <2>1, StaysEnding
<1>5. verdict' = "failed" /\ pc' = "close" BY <1>2 DEF PhaseEnds
<1> QED BY <1>3, <1>4, <1>5 DEF SmokeFound, SmokeReason, Blameless

\* A child that does not answer keeps the invariant: the runner waits for it.
LEMMA NoAnswerStep ==
  ASSUME SmokeInv, Smoke!NoAnswer
  PROVE  SmokeInv'
<1> USE DEF SmokeInv
<1>1. /\ pc = "run" /\ Smoke!Step \notin {"start", "record"} /\ hung'
      /\ UNCHANGED <<command, pc, at, verdict, children, mocks, record, exit, dotenv, outside>>
  BY DEF Smoke!NoAnswer
<1>2. /\ Smoke!Service' = Smoke!Service /\ Smoke!Phases' = Smoke!Phases
      /\ Smoke!Kind' = Smoke!Kind /\ Smoke!Step' = Smoke!Step
      /\ (Smoke!Sessions)' = Smoke!Sessions
  BY <1>1, PlaceKept, SessionsKept
<1>3. deviations' # {} BY DeviatesFacts DEF Smoke!NoAnswer
<1>4. SmokeAt'
  <2>1. at.step \in 1..Len(Smoke!Steps(Smoke!Kind, Smoke!Service)') BY <1>2 DEF SmokeAt
  <2> QED BY <1>1, <1>2, <2>1 DEF SmokeAt
<1>5. SmokeFound' BY <1>1, <1>2 DEF SmokeFound
<1> QED BY <1>3, <1>4, <1>5 DEF SmokeReason, Blameless

\* What a command of the CLI prints keeps the invariant.
LEMMA CliOutputStep ==
  ASSUME SmokeInv, Smoke!CliOutput
  PROVE  SmokeInv'
<1> USE DEF SmokeInv
<1>1. /\ pc = "run" /\ ~hung /\ Smoke!Step = "output"
      /\ UNCHANGED <<command, children, mocks, exit, hung, dotenv, outside>>
  BY DEF Smoke!CliOutput
<1>2. Smoke!Kind \in {"text", "json", "controls"} BY <1>1, RunFactsHere
<1>3. PICK sends \in BOOLEAN, expected \in BOOLEAN :
          /\ IF sends THEN Smoke!Sent({Smoke!CliRequest(Smoke!Kind, Smoke!Service)})
             ELSE UNCHANGED record
          /\ IF sends /\ expected THEN UNCHANGED deviations
             ELSE Smoke!Deviates(IF expected THEN "unasked" ELSE "answer")
          /\ Smoke!Went(expected)
  BY DEF Smoke!CliOutput
<1>4. SmokeAt'
  <2>1. children' \subseteq {Here} BY <1>1 DEF SmokeAt, Here
  <2>2. Moves \/ PhaseEnds("ok") \/ PhaseEnds("failed")
    <3>1. expected => Smoke!Went(TRUE) BY <1>3 DEF Smoke!Went
    <3>2. ~expected => Smoke!Went(FALSE) BY <1>3 DEF Smoke!Went
    <3> QED BY <3>1, <3>2, WentFacts
  <2> QED BY <1>1, <2>1, <2>2, StaysMoving, StaysEnding
<1>5. CASE ~expected
  <2>1. Smoke!Went(FALSE) BY <1>3, <1>5 DEF Smoke!Went
  <2>2. verdict' = "failed" /\ pc' = "close" /\ UNCHANGED at BY <2>1, WentFacts DEF PhaseEnds
  <2>3. deviations' # {}
    <3>1. Smoke!Deviates("answer") BY <1>3, <1>5
    <3> QED BY <3>1, DeviatesFacts
  <2> QED BY <1>4, <2>2, <2>3 DEF SmokeFound, SmokeReason, Blameless
<1>6. CASE expected
  <2>1. Moves \/ (PhaseEnds("ok") /\ at.step = StepCount)
    <3>1. Smoke!Went(TRUE) BY <1>3, <1>6 DEF Smoke!Went
    <3> QED BY <3>1, WentFacts
  <2>2. /\ Smoke!Kind' = Smoke!Kind /\ Smoke!Service' = Smoke!Service
        /\ at'.session = at.session
    BY <1>1, <2>1, PlaceMoved, PlaceKept DEF PhaseEnds
  <2>3. Smoke!Kind = "controls" => pc' = "run" /\ Smoke!Step' = "record"
    <3>1. Smoke!Kind = "controls" => Moves BY <1>1, <2>1, RunFactsHere
    <3> QED BY <1>1, <3>1, RunFactsHere DEF Moves
  <2>4. ~OverMcp BY <1>2 DEF OverMcp
  <2>5. Smoke!Requested \subseteq (Smoke!Requested)'
    <3>1. CASE sends
      <4>1. Smoke!Sent({Smoke!CliRequest(Smoke!Kind, Smoke!Service)}) BY <1>3, <3>1
      <4> QED BY <4>1, SentFacts
    <3>2. CASE ~sends
      <4>1. record' = record BY <1>3, <3>2
      <4> QED BY <4>1 DEF Smoke!Requested
    <3> QED BY <3>1, <3>2
  <2>6. Smoke!Step # "record" BY <1>1
  <2>7. \A d \in deviations : SetsOutToFind(d)' => verdict' = "failed" \/ hung' \/ Pending(d)'
    BY <1>1, <1>2, <2>1, <2>5, <2>6, FoundKept
  <2>8. verdict' = "ok" BY <1>1, <2>1, RunFactsHere DEF Moves, PhaseEnds
  <2>9. CASE sends
    <3>1. deviations' = deviations BY <1>3, <1>6, <2>9
    <3>2. Smoke!Kind = "controls" => Smoke!Written(Smoke!Service) \in (Smoke!Requested)'
      <4>1. Smoke!Sent({Smoke!CliRequest(Smoke!Kind, Smoke!Service)}) BY <1>3, <2>9
      <4>2. Smoke!Kind = "controls" =>
                Smoke!CliRequest(Smoke!Kind, Smoke!Service) = Smoke!Written(Smoke!Service)
        BY DEF Smoke!CliRequest
      <4> QED BY <4>1, <4>2, SentFacts
    <3>3. SmokeFound' BY <2>2, <2>3, <2>7, <3>1 DEF SmokeFound
    <3>4. SmokeReason'
      <4>1. exit' # 1 BY <1>1, RunFactsHere
      <4> QED BY <2>2, <2>4, <2>8, <3>2, <4>1 DEF SmokeReason, OverMcp
    <3> QED BY <1>4, <3>3, <3>4
  <2>10. CASE ~sends
    <3>1. record' = record /\ Smoke!Deviates("unasked") BY <1>3, <1>6, <2>10
    <3>2. PICK d : /\ deviations' = deviations \cup {d}
                   /\ d.session = at.session /\ d.kind = Smoke!Kind
                   /\ d.step = <<IF pc = "run" THEN Smoke!Step ELSE pc, "unasked">>
      BY <3>1, DeviatesFacts
    <3>3. d.step[2] = "unasked" BY <3>2
    <3>4. SetsOutToFind(d)' => Pending(d)'
      <4>1. SetsOutToFind(d)' => d.kind = "controls" BY <3>3 DEF SetsOutToFind
      <4>2. Smoke!Kind = "controls" => record = {} BY <1>1 DEF SmokeFound
      <4>3. Smoke!Kind = "controls" => (Smoke!Requested)' = {}
        BY <3>1, <4>2 DEF Smoke!Requested
      <4> QED BY <2>2, <2>3, <3>2, <3>3, <4>1, <4>3 DEF Pending
    <3>5. SmokeFound'
      <4>1. \A e \in deviations' :
                SetsOutToFind(e)' => verdict' = "failed" \/ hung' \/ Pending(e)'
        BY <2>7, <3>2, <3>4
      <4> QED BY <2>2, <2>3, <4>1 DEF SmokeFound
    <3>6. deviations' # {} BY <3>2
    <3> QED BY <1>4, <3>5, <3>6 DEF SmokeReason, Blameless
  <2> QED BY <2>9, <2>10
<1> QED BY <1>5, <1>6

\* The search of the record of requests at the end of a phase keeps the invariant.
LEMMA CheckRecordStep ==
  ASSUME SmokeInv, Smoke!CheckRecord
  PROVE  SmokeInv'
<1> USE DEF SmokeInv
<1> DEFINE forbidden == Smoke!Forbidden(Smoke!Service)
           written == Smoke!Written(Smoke!Service)
           right == IF Smoke!Kind = "restricted" THEN forbidden \notin Smoke!Requested
                    ELSE written \in Smoke!Requested
<1>1. /\ pc = "run" /\ Smoke!Step = "record" /\ ~hung /\ at.step = StepCount
      /\ Smoke!Kind \in {"restricted", "controls"}
      /\ UNCHANGED <<command, children, mocks, record, exit, hung, dotenv, deviations, outside>>
  BY RunFactsHere DEF Smoke!CheckRecord
<1>2. /\ right => PhaseEnds("ok")
      /\ ~right => PhaseEnds("failed")
  <2>1. Smoke!Went(right) BY DEF Smoke!CheckRecord
  <2>2. right => Smoke!Went(TRUE) BY <2>1 DEF Smoke!Went
  <2>3. ~right => Smoke!Went(FALSE) BY <2>1 DEF Smoke!Went
  <2>4. ~Moves BY <1>1, RunFactsHere DEF Moves
  <2> HIDE DEF right
  <2> QED BY <2>2, <2>3, <2>4, WentFacts
<1>3. UNCHANGED at /\ pc' = "close" BY <1>2 DEF PhaseEnds
<1>4. Smoke!Kind' = Smoke!Kind BY <1>1, <1>3, PlaceKept
<1>5. SmokeAt'
  <2>1. children' \subseteq {Here} BY <1>1 DEF SmokeAt, Here
  <2> HIDE DEF right
  <2> QED BY <1>1, <1>2, <2>1, StaysEnding
<1>6. (Smoke!Requested)' = Smoke!Requested BY <1>1 DEF Smoke!Requested
<1>7. PhaseEnds("ok") => right
  <2> HIDE DEF right
  <2> QED BY <1>2 DEF PhaseEnds
<1>8. SmokeFound'
  <2>1. Moves \/ PhaseEnds("ok") \/ PhaseEnds("failed")
    <3> HIDE DEF right
    <3> QED BY <1>2
  <2>2. ~Moves BY <1>1, RunFactsHere DEF Moves
  <2>3. \A d \in deviations : SetsOutToFind(d)' => verdict' = "failed" \/ hung' \/ Pending(d)'
    BY <1>1, <1>6, <1>7, <2>1, <2>2, FoundKept
  <2> QED BY <1>1, <1>3, <2>3 DEF SmokeFound
<1>9. SmokeReason'
  <2>1. deviations = {} => right
    <3>1. CASE Smoke!Kind = "restricted"
      <4>1. deviations = {} => \A r \in Smoke!Requested : r[1] = "GET"
        BY <1>1, <3>1 DEF SmokeReason, OverMcp
      <4>2. forbidden[1] = "POST" BY PlaceFacts, CallsFacts
      <4> HIDE DEF forbidden
      <4> QED BY <3>1, <4>1, <4>2
    <3>2. CASE Smoke!Kind = "controls"
      <4>1. deviations = {} => written \in Smoke!Requested BY <1>1, <3>2 DEF SmokeReason
      <4> QED BY <3>2, <4>1
    <3> QED BY <1>1, <3>1, <3>2
  <2>2. Blameless' => verdict' = "ok" /\ exit' # 1
    <3> HIDE DEF right
    <3> QED BY <1>1, <1>2, <2>1, RunFactsHere DEF Blameless, PhaseEnds
  <2> QED BY <1>1, <1>3, <1>4, <1>6, <2>2 DEF SmokeReason, OverMcp
<1> QED BY <1>5, <1>8, <1>9

\* The end of a phase keeps the invariant: its child is gone.
LEMMA CloseChildStep ==
  ASSUME SmokeInv, Smoke!CloseChild
  PROVE  SmokeInv'
<1> USE DEF SmokeInv
<1>1. /\ pc = "close" /\ ~hung /\ exit = -1
      /\ UNCHANGED <<command, verdict, mocks, record, exit, hung, dotenv, deviations, outside>>
      /\ children' = {}
  BY DEF Smoke!CloseChild, SmokeAt
<1>2. (Smoke!Requested)' = Smoke!Requested BY <1>1 DEF Smoke!Requested
<1>3. at.phase \in 1..Len(Smoke!Phases) /\ Len(Smoke!Phases) \in Nat
  BY PlaceFacts, PhaseFacts DEF SmokeAt
<1>4. CASE verdict = "ok" /\ at.phase < Len(Smoke!Phases)
  <2>1. pc' = "run" /\ at' = [at EXCEPT !.phase = @ + 1, !.step = 1]
    BY <1>4 DEF Smoke!CloseChild
  <2>2. /\ at' \in [session : Nat, phase : Nat, step : Nat]
        /\ at'.session = at.session /\ at'.phase = at.phase + 1 /\ at'.step = 1
    <3>1. at \in [session : Nat, phase : Nat, step : Nat] BY DEF SmokeAt
    <3>2. at.session \in Nat /\ at.phase \in Nat /\ at.phase + 1 \in Nat BY <3>1
    <3>3. at' = [session |-> at.session, phase |-> at.phase + 1, step |-> 1]
      BY <2>1, <3>1
    <3> QED BY <3>2, <3>3
  <2>3. /\ Smoke!Service' = Smoke!Service /\ Smoke!Phases' = Smoke!Phases
        /\ (Smoke!Sessions)' = Smoke!Sessions
    BY <1>1, <2>2, SessionsKept DEF Smoke!Service, Smoke!Phases
  <2>4. at'.phase \in 1..Len(Smoke!Phases) /\ Smoke!Kind' = Smoke!Phases[at'.phase]
    BY <1>3, <1>4, <2>2, <2>3 DEF Smoke!Kind
  <2>5. /\ Smoke!Kind' \in {"stdio", "http", "restricted", "text", "json", "controls"}
        /\ Smoke!Kind' # "controls"
        /\ OverMcp' => OverMcp
    <3> DEFINE p == Smoke!Phases
               i == at'.phase
               j == at.phase
    <3>1. p \in PhaseLists /\ i \in 1..Len(p) /\ j \in 1..Len(p) /\ Len(p) # 1
      <4>1. p \in PhaseLists BY PlaceFacts
      <4>2. i \in 1..Len(p) /\ j \in 1..Len(p) BY <1>3, <2>4
      <4>3. j < Len(p) BY <1>4
      <4>4. Len(p) \in Nat BY <1>3
      <4>5. j \in Nat /\ j >= 1
        <5> HIDE DEF p, j
        <5> QED BY <4>2
      <4> HIDE DEF p, i, j
      <4>6. Len(p) # 1
        <5>1. \A a, b \in Nat : a >= 1 /\ a < b => b # 1 OBVIOUS
        <5> QED BY <4>3, <4>4, <4>5, <5>1, Zenon
      <4> QED BY <4>1, <4>2, <4>6
    <3>2. Smoke!Kind' = p[i] /\ Smoke!Kind = p[j] BY <2>4 DEF Smoke!Kind
    <3> HIDE DEF p, i, j
    <3> QED BY <3>1, <3>2, PhaseFacts DEF OverMcp
  <2>6. at'.step \in 1..Len(Smoke!Steps(Smoke!Kind', Smoke!Service'))
    BY <2>2, <2>3, <2>5, PlaceFacts, FirstStep
  <2>7. at'.session \in 1..Len((Smoke!Sessions)') /\ mocks' \subseteq {at'.session}
    BY <1>1, <2>2, <2>3 DEF SmokeAt
  <2>8. SmokeAt'
    BY <1>1, <1>4, <2>1, <2>2, <2>3, <2>4, <2>6, <2>7 DEF SmokeAt
  <2>9. SmokeFound'
    <3>1. ASSUME NEW d \in deviations, SetsOutToFind(d)' PROVE Pending(d)'
      <4>1. SetsOutToFind(d) BY <1>1, <3>1, JudgedAlike
      <4>2. Pending(d) BY <1>1, <1>4, <4>1 DEF SmokeFound
      <4> QED BY <1>1, <1>2, <2>1, <2>2, <2>3, <4>2 DEF Pending
    <3> QED BY <1>1, <2>5, <3>1 DEF SmokeFound
  <2>10. SmokeReason' BY <1>1, <1>2, <1>4, <2>1, <2>5 DEF SmokeReason, Blameless
  <2> QED BY <2>8, <2>9, <2>10
<1>5. CASE ~(verdict = "ok" /\ at.phase < Len(Smoke!Phases))
  <2>1. pc' = "unbind" /\ at' = at BY <1>5 DEF Smoke!CloseChild
  <2>2. verdict = "ok" => at.phase = Len(Smoke!Phases) BY <1>3, <1>5
  <2>3. /\ Smoke!Service' = Smoke!Service /\ Smoke!Phases' = Smoke!Phases
        /\ Smoke!Kind' = Smoke!Kind /\ (Smoke!Sessions)' = Smoke!Sessions
    BY <1>1, <2>1, PlaceKept, SessionsKept
  <2>4. SmokeAt'
    <3>1. at.step \in 1..Len(Smoke!Steps(Smoke!Kind, Smoke!Service)') BY <2>3 DEF SmokeAt
    <3> QED BY <1>1, <2>1, <2>2, <2>3, <3>1 DEF SmokeAt
  <2>5. SmokeFound'
    <3>1. verdict = "ok" => \A d \in deviations : ~SetsOutToFind(d) BY <1>1, <2>2, NoneLeft
    <3>2. verdict \in {"ok", "failed"} BY DEF SmokeAt
    <3> QED BY <1>1, <2>1, <3>1, <3>2, JudgedAlike DEF SmokeFound
  <2>6. SmokeReason' BY <1>1, <2>1 DEF SmokeReason, Blameless
  <2> QED BY <2>4, <2>5, <2>6
<1> QED BY <1>4, <1>5

\* The end of a session keeps the invariant: its mock is gone.
LEMMA UnbindStep ==
  ASSUME SmokeInv, Smoke!Unbind
  PROVE  SmokeInv'
<1> USE DEF SmokeInv
<1>1. /\ pc = "unbind" /\ ~hung /\ exit = -1 /\ children = {} /\ mocks' = {}
      /\ UNCHANGED <<command, verdict, children, record, hung, dotenv, deviations, outside>>
  BY DEF Smoke!Unbind, SmokeAt
<1>2. verdict \in {"ok", "failed"} BY DEF SmokeAt
<1>3. (Smoke!Sessions)' = Smoke!Sessions BY <1>1, SessionsKept
<1>4. SmokeFound'
  <2>1. verdict = "ok" => \A d \in deviations : ~SetsOutToFind(d) BY <1>1, NoneLeft
  <2>2. pc' # "run" BY <1>2 DEF Smoke!Unbind, Smoke!End
  <2> QED BY <1>1, <1>2, <2>1, <2>2, JudgedAlike DEF SmokeFound
<1>5. CASE verdict = "failed" \/ (verdict = "ok" /\ at.session = Len(Smoke!Sessions))
  <2>1. pc' = "done" /\ exit' = (IF verdict = "failed" THEN 1 ELSE 0) /\ at' = at
    BY <1>5 DEF Smoke!Unbind, Smoke!End
  <2>2. /\ Smoke!Service' = Smoke!Service /\ Smoke!Phases' = Smoke!Phases
        /\ Smoke!Kind' = Smoke!Kind
    BY <1>1, <2>1, PlaceKept
  <2>3. SmokeAt'
    <3>1. at.step \in 1..Len(Smoke!Steps(Smoke!Kind, Smoke!Service)') BY <2>2 DEF SmokeAt
    <3> QED BY <1>1, <1>2, <1>3, <2>1, <2>2, <3>1 DEF SmokeAt
  <2>4. SmokeReason' BY <1>1, <1>2, <2>1 DEF SmokeReason, Blameless
  <2> QED BY <1>4, <2>3, <2>4
<1>6. CASE verdict = "ok" /\ at.session # Len(Smoke!Sessions)
  <2>1. /\ pc' \in {"bind", "build"} /\ exit' = exit
        /\ at' = [session |-> at.session + 1, phase |-> 1, step |-> 1]
    BY <1>6 DEF Smoke!Unbind
  <2>2. /\ at' \in [session : Nat, phase : Nat, step : Nat]
        /\ at'.session = at.session + 1 /\ at'.phase = 1 /\ at'.step = 1
    BY <2>1 DEF SmokeAt
  <2>3. at'.session \in 1..Len(Smoke!Sessions)
    <3>1. at.session \in 1..Len(Smoke!Sessions) /\ Len(Smoke!Sessions) \in Nat
      BY PlaceFacts DEF SmokeAt
    <3> QED BY <1>6, <2>2, <3>1
  <2>4. Smoke!Service' \in ServiceNames /\ Smoke!Phases' \in PhaseLists
    BY <1>3, <2>3, PlaceFacts DEF Smoke!Service, Smoke!Phases
  <2>5. /\ at'.phase \in 1..Len(Smoke!Phases')
        /\ Smoke!Kind' \in {"stdio", "http", "restricted", "text", "json", "controls"}
    <3> DEFINE p == Smoke!Phases'
    <3>1. Smoke!Kind' = p[1] BY <2>2 DEF Smoke!Kind
    <3>2. p \in PhaseLists BY <2>4
    <3> HIDE DEF p
    <3>3. 1 \in 1..Len(p) BY <3>2, PhaseFacts
    <3> QED BY <2>2, <3>1, <3>2, <3>3, PhaseFacts DEF p
  <2>6. at'.step \in 1..Len(Smoke!Steps(Smoke!Kind', Smoke!Service'))
    BY <2>2, <2>4, <2>5, FirstStep
  <2>7. SmokeAt'
    BY <1>1, <1>2, <1>3, <1>6, <2>1, <2>2, <2>3, <2>5, <2>6 DEF SmokeAt
  <2>8. SmokeReason' BY <1>1, <1>6, <2>1 DEF SmokeReason, Blameless
  <2> QED BY <1>4, <2>7, <2>8
<1> QED BY <1>2, <1>5, <1>6

\* A write of the child that nobody asked for keeps the invariant: it is pending.
LEMMA StrayStep ==
  ASSUME SmokeInv, Smoke!Stray
  PROVE  SmokeInv'
<1> USE DEF SmokeInv
<1> DEFINE forbidden == Smoke!Forbidden(Smoke!Service)
<1>1. /\ pc \in {"run", "close"} /\ ~Smoke!OfCli
      /\ Smoke!Sent({forbidden}) /\ Smoke!Deviates("stray")
      /\ UNCHANGED <<command, pc, at, verdict, children, mocks, exit, hung, dotenv, outside>>
  BY DEF Smoke!Stray
<1>2. /\ Smoke!Service' = Smoke!Service /\ Smoke!Phases' = Smoke!Phases
      /\ Smoke!Kind' = Smoke!Kind /\ Smoke!Step' = Smoke!Step
      /\ (Smoke!Sessions)' = Smoke!Sessions
  BY <1>1, PlaceKept, SessionsKept
<1>3. Smoke!Kind # "controls" BY <1>1 DEF Smoke!OfCli
<1>4. (Smoke!Requested)' = Smoke!Requested \cup {forbidden} BY <1>1, SentFacts
<1>5. PICK d : /\ deviations' = deviations \cup {d}
               /\ d.session = at.session /\ d.kind = Smoke!Kind
               /\ d.step = <<IF pc = "run" THEN Smoke!Step ELSE pc, "stray">>
  BY <1>1, DeviatesFacts
<1>6. d.step[2] = "stray" /\ d.step[1] = IF pc = "run" THEN Smoke!Step ELSE pc BY <1>5
<1>7. SmokeAt'
  <2>1. at.step \in 1..Len(Smoke!Steps(Smoke!Kind, Smoke!Service)') BY <1>2 DEF SmokeAt
  <2> QED BY <1>1, <1>2, <2>1 DEF SmokeAt
<1>8. SetsOutToFind(d)' => Pending(d)'
  <2>1. SetsOutToFind(d)' => ~(pc = "close" /\ Smoke!Kind = "restricted")
    <3>1. SetsOutToFind(d)' => d.step[1] # "close" \/ d.kind # "restricted"
      BY <1>6 DEF SetsOutToFind
    <3> QED BY <1>5, <1>6, <3>1
  <2> QED BY <1>1, <1>2, <1>4, <1>5, <1>6, <2>1 DEF Pending
<1>9. ASSUME NEW e \in deviations, SetsOutToFind(e)', verdict # "failed", ~hung
      PROVE  Pending(e)'
  <2>1. Pending(e) BY <1>1, <1>9, JudgedAlike DEF SmokeFound
  <2> QED BY <1>1, <1>2, <1>3, <1>4, <2>1 DEF Pending
<1>10. SmokeFound' BY <1>1, <1>2, <1>3, <1>5, <1>8, <1>9 DEF SmokeFound
<1>11. deviations' # {} BY <1>5
<1> QED BY <1>7, <1>10, <1>11 DEF SmokeReason, Blameless

-----------------------------------------------------------------------------
(* The two together.                                                       *)

RunnersInv == IF IsSmoke THEN SmokeInv ELSE RowsAt /\ RowsTold

\* Each runner starts in the invariant.
LEMMA RunnersInit == Init => RunnersInv
<1> SUFFICES ASSUME Init PROVE RunnersInv
  OBVIOUS
<1>1. CASE Smoke!Init
  <2>1. /\ command \in SmokeCommands /\ pc = "build" /\ children = {} /\ exit = -1
        /\ hung = FALSE /\ outside = {} /\ verdict = "ok" /\ mocks = {} /\ record = {}
        /\ deviations = {} /\ at = [session |-> 1, phase |-> 1, step |-> 1]
    BY <1>1 DEF Smoke!Init, Smoke!OwnInit, Smoke!Start
  <2>2. /\ at \in [session : Nat, phase : Nat, step : Nat]
        /\ at.session = 1 /\ at.phase = 1 /\ at.step = 1
    BY <2>1
  <2>3. Smoke!Sessions \in Seq(SessionSet) /\ 1 \in 1..Len(Smoke!Sessions)
    BY <2>1, SessionsFacts, LenProperties
  <2>4. Smoke!Service \in ServiceNames /\ Smoke!Phases \in PhaseLists
    <3>1. Smoke!Sessions[1] \in SessionSet BY <2>3, ElementOfSeq
    <3> QED BY <2>2, <3>1, SessionFields DEF Smoke!Service, Smoke!Phases
  <2>5. /\ 1 \in 1..Len(Smoke!Phases)
        /\ Smoke!Kind \in {"stdio", "http", "restricted", "text", "json", "controls"}
    <3> DEFINE p == Smoke!Phases
    <3>1. Smoke!Kind = p[1] BY <2>2 DEF Smoke!Kind
    <3>2. p \in PhaseLists BY <2>4
    <3> HIDE DEF p
    <3>3. 1 \in 1..Len(p) BY <3>2, PhaseFacts
    <3> QED BY <3>1, <3>2, <3>3, PhaseFacts DEF p
  <2>6. 1 \in 1..Len(Smoke!Steps(Smoke!Kind, Smoke!Service)) BY <2>4, <2>5, FirstStep
  <2>7. SmokeAt BY <2>1, <2>2, <2>3, <2>5, <2>6 DEF SmokeAt
  <2>8. SmokeFound /\ SmokeReason BY <2>1 DEF SmokeFound, SmokeReason
  <2> QED BY <2>1, <2>7, <2>8 DEF RunnersInv, SmokeInv, IsSmoke
<1>2. CASE Acceptance!Init /\ Smoke!OwnInit
  <2>1. /\ command \in AcceptanceCommands /\ pc = "load" /\ children = {} /\ mocks = {}
        /\ row = 1 /\ printed = <<>> /\ truth = [i \in DOMAIN Acceptance!Rows |-> "none"]
    BY <1>2 DEF Acceptance!Init, Acceptance!OwnInit, Smoke!OwnInit
  <2>2. ~IsSmoke
    <3>1. DOMAIN command = {"mode", "action"}
      BY <2>1, CommandsAssumption DEF Commands
    <3>2. \A c \in SmokeCommands : "target" \in DOMAIN c BY CommandsAssumption DEF Commands
    <3> QED BY <3>1, <3>2 DEF IsSmoke
  <2>3. RowCount \in Nat \ {0} /\ DOMAIN Acceptance!Rows = 1..RowCount
    BY <2>1, RowsFacts DEF RowCount
  <2>4. RowsAt BY <2>1, <2>3 DEF RowsAt
  <2>5. RowsTold
    <3>1. printed \in Seq({"ok", "blocked", "failed"}) /\ Len(printed) = 0 BY <2>1
    <3>2. truth = [i \in 1..RowCount |-> truth[i]] /\ \A i \in 1..RowCount : truth[i] = "none"
      BY <2>1, <2>3
    <3> QED BY <2>1, <3>1, <3>2 DEF RowsTold
  <2> QED BY <2>2, <2>4, <2>5 DEF RunnersInv
<1> QED BY <1>1, <1>2 DEF Init

\* Each step of each runner keeps the invariant.
LEMMA RunnersStep == RunnersInv /\ [Next]_vars => RunnersInv'
<1> SUFFICES ASSUME RunnersInv, [Next]_vars PROVE RunnersInv'
  OBVIOUS
<1>1. CASE RunSmoke
  <2>1. IsSmoke /\ SmokeInv /\ Smoke!Runner BY <1>1 DEF RunSmoke, RunnersInv
  <2>2. SmokeInv'
    BY <2>1, BuildStep, StartChildStep, AnswerStep, OtherAnswerStep, NoAnswerStep,
       CliOutputStep, CheckRecordStep, CloseChildStep, UnbindStep DEF Smoke!Runner
  <2> QED BY <2>2 DEF RunnersInv, SmokeInv, SmokeAt, IsSmoke
<1>2. CASE SmokeChildStrays
  <2>1. SmokeInv' BY <1>2, StrayStep DEF SmokeChildStrays, RunnersInv
  <2> QED BY <2>1 DEF RunnersInv, SmokeInv, SmokeAt, IsSmoke
<1>3. CASE RunAcceptance
  <2>1. ~IsSmoke /\ RowsAt /\ RowsTold /\ Acceptance!Next /\ UNCHANGED mocks
    BY <1>3 DEF RunAcceptance, RunnersInv, smokeVars
  <2>2. RowsAt' /\ RowsTold' BY <2>1, AcceptanceStep
  <2>3. command' = command
    BY <2>1 DEF Acceptance!Next, Acceptance!LoadEnv, Acceptance!Preflight,
        Acceptance!StartRow, Acceptance!Answered, Acceptance!Unanswered,
        Acceptance!Deviated, Acceptance!NoAnswer, Acceptance!Tally
  <2> QED BY <2>1, <2>2, <2>3 DEF RunnersInv, IsSmoke
<1>4. CASE UNCHANGED vars
  <2>1. UNCHANGED <<command, pc, children, exit, hung, dotenv, outside, at, verdict, mocks,
                    record, deviations, process, file, env, row, printed, truth>>
    BY <1>4 DEF vars, smokeVars, acceptanceVars
  <2>2. IsSmoke' <=> IsSmoke BY <2>1 DEF IsSmoke
  <2>3. CASE IsSmoke
    <3>1. SmokeAt /\ SmokeFound /\ SmokeReason BY <2>3 DEF RunnersInv, SmokeInv
    <3>2. /\ Smoke!Service' = Smoke!Service /\ Smoke!Phases' = Smoke!Phases
          /\ Smoke!Kind' = Smoke!Kind /\ Smoke!Step' = Smoke!Step
          /\ (Smoke!Sessions)' = Smoke!Sessions
          /\ (Smoke!Requested)' = Smoke!Requested
      BY <2>1, PlaceKept, SessionsKept DEF Smoke!Requested
    <3>3. SmokeAt'
      <4>1. at.step \in 1..Len(Smoke!Steps(Smoke!Kind, Smoke!Service)')
        BY <3>1, <3>2 DEF SmokeAt
      <4> QED BY <2>1, <3>1, <3>2, <4>1 DEF SmokeAt
    <3>4. \A d : Pending(d)' <=> Pending(d) BY <2>1, <3>2 DEF Pending
    <3>5. SmokeFound' BY <2>1, <3>1, <3>2, <3>4, JudgedAlike DEF SmokeFound
    <3>6. SmokeReason' BY <2>1, <3>1, <3>2 DEF SmokeReason, Blameless, OverMcp
    <3> QED BY <2>2, <2>3, <3>3, <3>5, <3>6 DEF RunnersInv, SmokeInv
  <2>4. CASE ~IsSmoke
    <3>1. RowsAt /\ RowsTold BY <2>4 DEF RunnersInv
    <3>2. (Acceptance!Rows)' = Acceptance!Rows /\ RowCount' = RowCount BY <2>1, RowsKept
    <3>3. RowsAt' BY <2>1, <3>1, <3>2 DEF RowsAt
    <3>4. \A i : LineTrue(i)' <=> LineTrue(i) BY <2>1, LineKept
    <3>5. \A i : Acceptance!ExitOf(printed[i])' = Acceptance!ExitOf(printed[i])
      BY <2>1 DEF Acceptance!ExitOf
    <3>6. RowGiven' <=> RowGiven
      BY <2>1, <3>2 DEF RowGiven, Acceptance!Current, Acceptance!Given
    <3>7. RowsTold' BY <2>1, <3>1, <3>2, <3>4, <3>5, <3>6 DEF RowsTold
    <3> QED BY <2>2, <2>4, <3>3, <3>7 DEF RunnersInv
  <2> QED BY <2>3, <2>4
<1> QED BY <1>1, <1>2, <1>3, <1>4 DEF Next

\* However the child, the service and the settings are, one child at most is running, and
\* neither a child nor a mock is left when a runner exits.
THEOREM RunnersLeaveNothing == Spec => []NoStrays
<1>1. RunnersInv => NoStrays
  <2> SUFFICES ASSUME RunnersInv PROVE NoStrays
    OBVIOUS
  <2>1. \E x : children \subseteq {x} /\ (pc = "done" => children = {} /\ mocks = {})
    <3>1. CASE IsSmoke BY <3>1 DEF RunnersInv, SmokeInv, SmokeAt
    <3>2. CASE ~IsSmoke BY <3>2 DEF RunnersInv, RowsAt
    <3> QED BY <3>1, <3>2
  <2>2. PICK x : children = {} \/ children = {x} BY <2>1
  <2>3. Cardinality(children) <= 1
    <3>1. Cardinality({}) = 0 BY FS_EmptySet
    <3>2. Cardinality({x}) = 1 BY FS_Singleton
    <3> QED BY <2>2, <3>1, <3>2
  <2> QED BY <2>1, <2>3 DEF NoStrays
<1> QED BY <1>1, RunnersInit, RunnersStep, PTL DEF Spec

\* The exit code of the smoke: 0 only if the child did nothing that the smoke sets out to
\* find, 1 only if something went wrong.
THEOREM SmokeTrue == Spec => []SmokeTellsTruth
<1>1. RunnersInv => SmokeTellsTruth
  <2> SUFFICES ASSUME RunnersInv, IsSmoke
               PROVE  /\ Done(0) => ~\E d \in deviations : SetsOutToFind(d)
                      /\ Done(1) => deviations # {} \/ outside # {} \/ dotenv # {}
    BY DEF SmokeTellsTruth
  <2>1. SmokeAt /\ SmokeFound /\ SmokeReason BY DEF RunnersInv, SmokeInv
  <2>2. Done(0) => verdict = "ok" /\ pc = "done" BY <2>1 DEF SmokeAt, Done
  <2>3. Done(0) => \A d \in deviations : ~SetsOutToFind(d) BY <2>1, <2>2, NoneLeft
  <2>4. Done(1) => ~Blameless BY <2>1 DEF SmokeReason, Done
  <2> QED BY <2>3, <2>4 DEF Blameless
<1> QED BY <1>1, RunnersInit, RunnersStep, PTL DEF Spec

\* The lines of the acceptance and its exit code: every row is printed and each line tells
\* how the row was dealt with, as far as an answer without an error goes; the code is that
\* of the worst line.
THEOREM AcceptanceTrue == Spec => []AcceptanceTellsTruth
<1>1. RunnersInv => AcceptanceTellsTruth
  <2> SUFFICES ASSUME RunnersInv, ~IsSmoke, pc = "done", printed # <<>>
               PROVE  AcceptanceTellsTruth
    BY DEF AcceptanceTellsTruth
  <2>1. RowsAt /\ RowsTold BY DEF RunnersInv
  <2>2. /\ Len(printed) = RowCount /\ \A i \in DOMAIN printed : LineTrue(i)
        /\ exit = IF Printed("blocked") THEN 2 ELSE IF Printed("failed") THEN 1 ELSE 0
    BY <2>1, RowsEnd
  <2> QED BY <2>2 DEF AcceptanceTellsTruth, RowCount
<1> QED BY <1>1, RunnersInit, RunnersStep, PTL DEF Spec
=============================================================================
