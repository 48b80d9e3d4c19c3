------------------------- MODULE AttachmentDownload -------------------------
(***************************************************************************)
(* download_content_attachments: one call lists the attachments of a page  *)
(* of Confluence content, one list page after the other, and downloads the *)
(* ones its filter keeps.  Each request is awaited, and between any two of *)
(* them other users may attach and delete files.                           *)
(*                                                                         *)
(* The server is external: it answers a list request with a run of the     *)
(* attachments from "start" on and, when there are more, a link to the     *)
(* next page.  The client applies the filename filter itself, to each list *)
(* page it received.                                                       *)
(***************************************************************************)
EXTENDS Naturals, Sequences, FiniteSets, SequencesExt, Functions, Selection

CONSTANTS
  Attachments,  \* every attachment there may ever be
  TitleOf,      \* how a title relates to the filter text: exact, containing, other
  Initially,    \* the attachments when the call is made, in the server's order
  DownloadLimits,  \* the limits a caller may ask for; NoLimit: none
  NoLimit,
  NoStart,      \* a next link without a start parameter
  ListLimit,    \* MAX_ATTACHMENT_LIST_LIMIT
  MaxPages,     \* CONFLUENCE_DOWNLOAD_CONTENT_ATTACHMENTS_MAX_PAGES
  Servers,      \* the kinds of next link a server sends: advance, cursor, back
  MaxListChanges  \* bound: how often others change the attachments during the call

ASSUME InitiallyAssumption == Initially \in Seq(Attachments) /\ IsInjective(Initially)
ASSUME TitleAssumption == TitleOf \in [Attachments -> {"exact", "containing", "other"}]
ASSUME LimitAssumption ==
  /\ NoLimit \notin Nat /\ DownloadLimits \subseteq (Nat \ {0}) \cup {NoLimit}
  /\ ListLimit \in Nat \ {0} /\ MaxPages \in Nat \ {0} /\ MaxListChanges \in Nat
ASSUME LinksAssumption == NoStart \notin Nat /\ Servers \subseteq SUBSET {"advance", "cursor", "back"}

VARIABLES
  links,    \* the kinds of next link that this server sends
  attached, \* the attachments on the server, in its order
  ever,     \* the attachments that were ever there (history)
  listChanges, \* how often others changed them
  filtered, \* whether the caller gave a filename
  limit,    \* the caller's limit
  stage,    \* list, asked, download or done
  start,    \* where the next list request begins
  response, \* the last list page: what the filter kept and is not yet downloaded
  pagesFetched,
  downloaded, failed,  \* the attachments reported as downloaded and as failed
  report    \* what the caller got

callVars == <<filtered, limit, stage, start, response, pagesFetched, downloaded, failed, report>>
othersVars == <<links, attached, ever, listChanges>>
downloadVars == <<othersVars, callVars>>

NoResponse == [results |-> <<>>, empty |-> TRUE, more |-> FALSE, next |-> NoStart]
NoReport == [status |-> "pending"]

\* What the filter keeps: the title is the text.
Kept(a) == ~filtered \/ TitleOf[a] = "exact"

Processed == Len(downloaded) + Len(failed)

LimitReached == limit # NoLimit /\ Processed >= limit

\* Pages of full length, whatever the limit leaves.
Fault_FetchLimit == ListLimit

FetchLimit == IF limit = NoLimit THEN ListLimit ELSE Smaller(limit - Processed, ListLimit)

Finish(more, next, applied) ==
  /\ stage' = "done"
  /\ report' = [status |-> "ok", has_more |-> more, next_start |-> next,
                 limit_applied |-> applied]

\* The next list page is asked for.
Ask ==
  /\ stage = "list"
  /\ IF LimitReached
       THEN Finish(TRUE, start, TRUE)
       ELSE stage' = "asked" /\ UNCHANGED report
  /\ UNCHANGED <<othersVars, filtered, limit, start, response, pagesFetched,
                 downloaded, failed>>

\* The next links a server may put under a page that ends at attachment "end".
NextStarts(end) ==
  (IF "advance" \in links THEN {end} ELSE {})
    \cup (IF "cursor" \in links THEN {NoStart} ELSE {})
    \cup (IF "back" \in links THEN 0..start ELSE {})

\* The answer, filtered.
Listed ==
  /\ stage = "asked"
  /\ LET end == Smaller(start + FetchLimit, Len(attached))
         results == Select(SubSeq(attached, start + 1, end), {a \in Attachments : Kept(a)})
     IN \E next \in NextStarts(end) :
          response' = [results |-> results, empty |-> results = <<>>,
                       more |-> end < Len(attached), next |-> next]
  /\ pagesFetched' = pagesFetched + 1
  /\ stage' = "download"
  /\ UNCHANGED <<othersVars, filtered, limit, start, downloaded, failed, report>>

\* The list request fails, and with it the call.
ListFailed ==
  /\ stage = "asked"
  /\ stage' = "done"
  /\ report' = [status |-> "error"]
  /\ UNCHANGED <<othersVars, filtered, limit, start, response, pagesFetched,
                 downloaded, failed>>

\* A download that failed is tried again until it succeeds.
Fault_Download ==
  /\ stage = "download"
  /\ response.results # <<>>
  /\ ~LimitReached
  /\ Head(response.results) \in ToSet(attached)
  /\ downloaded' = Append(downloaded, Head(response.results))
  /\ response' = [response EXCEPT !.results = Tail(@)]
  /\ UNCHANGED <<othersVars, filtered, limit, stage, start, pagesFetched, failed, report>>

\* One attachment of the page: too large, gone or unreachable, it is reported as failed.
Download ==
  /\ stage = "download"
  /\ response.results # <<>>
  /\ ~LimitReached
  /\ LET a == Head(response.results)
     IN \/ /\ a \in ToSet(attached)
           /\ downloaded' = Append(downloaded, a)
           /\ UNCHANGED failed
        \/ /\ failed' = Append(failed, a)
           /\ UNCHANGED downloaded
  /\ response' = [response EXCEPT !.results = Tail(@)]
  /\ UNCHANGED <<othersVars, filtered, limit, stage, start, pagesFetched, report>>

\* A page that reaches the limit counts as the last one.
Fault_LastPage == ~response.more \/ LimitReached

\* A page that the filter left empty counts as the last one.
LastPage == response.empty \/ ~response.more

\* Another page is asked for.
GoesOn ==
  /\ ~LastPage
  /\ ~LimitReached
  /\ pagesFetched < MaxPages
  /\ response.next \notin {NoStart, start}

\* The next page begins after as many attachments as were processed.
Fault_NextStart == Processed

NextStart == response.next

\* The page is done: the call ends, or goes on where the next link says.
PageDone ==
  /\ stage = "download"
  /\ response.results = <<>> \/ LimitReached
  /\ IF GoesOn
       THEN stage' = "list" /\ start' = NextStart /\ UNCHANGED report
       ELSE /\ Finish(~LastPage, IF LastPage THEN NoStart ELSE response.next,
                      /\ ~LastPage
                      /\ LimitReached \/ pagesFetched >= MaxPages \/ response.next # NoStart)
            /\ UNCHANGED start
  /\ UNCHANGED <<othersVars, filtered, limit, response, pagesFetched, downloaded, failed>>

\* Others attach a file, listed last, or delete one.
Attach ==
  /\ listChanges < MaxListChanges
  /\ \E a \in Attachments \ ever :
       attached' = Append(attached, a) /\ ever' = ever \cup {a}
  /\ listChanges' = listChanges + 1
  /\ UNCHANGED <<links, callVars>>

Detach ==
  /\ listChanges < MaxListChanges
  /\ \E i \in DOMAIN attached : attached' = RemoveAt(attached, i)
  /\ listChanges' = listChanges + 1
  /\ UNCHANGED <<links, ever, callVars>>

DownloadInit ==
  /\ links \in Servers
  /\ attached = Initially
  /\ ever = ToSet(Initially)
  /\ listChanges = 0
  /\ filtered \in BOOLEAN
  /\ limit \in DownloadLimits
  /\ stage = "list"
  /\ start = 0
  /\ response = NoResponse
  /\ pagesFetched = 0
  /\ downloaded = <<>>
  /\ failed = <<>>
  /\ report = NoReport

DownloadCall == Ask \/ Listed \/ ListFailed \/ Download \/ PageDone

DownloadNext == DownloadCall \/ Attach \/ Detach

DownloadSpec == DownloadInit /\ [][DownloadNext]_downloadVars

\* Every request is answered or times out, so the call keeps taking steps.
FairDownloadSpec == DownloadSpec /\ WF_downloadVars(DownloadCall)
-----------------------------------------------------------------------------
(* Properties. *)

Covered == ToSet(downloaded) \cup ToSet(failed)

\* The server's links do not lead back.
Forward == "back" \notin links

\* Nothing that was there from the start was deleted, so later pages do not shift.
Steady == Forward /\ IsPrefix(Initially, attached)

\* No attachment is downloaded or reported twice, whatever others do meanwhile:
\* list pages follow each other without overlap, unless the server's links do.
NothingTwice == Forward => Processed = Cardinality(Covered)

\* Without a filter, an answer that says there is no more accounts for every
\* attachment that was there when the call was made and that nobody deleted, but for at
\* most one for each deletion: a deletion shifts the list pages that are still to come.
NoMoreMeansAll ==
  report.status = "ok" /\ ~filtered /\ Forward =>
    \/ report.has_more
    \/ Cardinality((ToSet(Initially) \cap ToSet(attached)) \ Covered)
         <= Cardinality(ever \ ToSet(attached))

\* An answer that names where to go on accounts for every attachment before that
\* place, filtered or not: a caller that goes on there misses nothing.
ResumePoint ==
  report.status = "ok" /\ Steady =>
    \/ ~report.has_more \/ report.next_start = NoStart
    \/ \A i \in 1..Smaller(report.next_start, Len(Initially)) :
         Kept(Initially[i]) => Initially[i] \in Covered

\* The call ends whatever next links the server sends, also when they go in circles.
DownloadEnds == <>(stage = "done")

\* "Download matching attachments for content into command output"
\* (skills/workhub-rs/references/confluence.md): an answer that says there is no more
\* accounts for every attachment whose title is the text.
MatchingDownloaded ==
  report.status = "ok" /\ filtered /\ Steady =>
    report.has_more \/ \A a \in ToSet(Initially) : TitleOf[a] = "exact" => a \in Covered
=============================================================================
