---------------------------- MODULE PageChildren ----------------------------
(***************************************************************************)
(* list_page_children: the child pages and then the child folders of a     *)
(* Confluence page as one list, read window by window.  The server lists   *)
(* pages and folders separately, so a window that the pages do not fill    *)
(* asks for folders too, and has to find out how many folders the windows  *)
(* before it took: by what the page request returned, or, when it returned *)
(* nothing, by counting the pages again.                                   *)
(*                                                                         *)
(* The caller modelled here reads window after window, as `page children   *)
(* --start --limit` is meant to be used, while other users create pages.   *)
(* The server is external: it answers with up to ServerCap children from   *)
(* "start" on, the youngest last, and says whether more follow.            *)
(***************************************************************************)
EXTENDS Integers, Sequences, FiniteSets, Functions, Selection

CONSTANTS
  MaxChildren,   \* bound: pages, and folders, of one parent
  WindowSizes,   \* the window sizes a caller may ask for
  ServerCap,     \* the most children the server puts into one answer
  RecountLimit,  \* PAGE_CHILD_RECOUNT_LIMIT
  MaxRecounts,   \* MAX_PAGE_CHILD_RECOUNT_REQUESTS
  MaxCreated     \* bound: how many pages others create meanwhile

ASSUME ChildrenAssumption ==
  MaxChildren \in Nat /\ MaxCreated \in Nat /\ WindowSizes \subseteq Nat \ {0}
ASSUME ServerAssumption ==
  ServerCap \in Nat \ {0} /\ RecountLimit \in Nat \ {0} /\ MaxRecounts \in Nat \ {0}

VARIABLES
  pages, folders,  \* how many children of each kind the parent has
  created,         \* how many of the pages others created meanwhile
  windowSize, includeFolders,  \* the caller's arguments
  windowStart,     \* where the window begins
  step,            \* pages, recount, folders, window (answered) or stopped
  pageStart, pageResults,  \* the answer to the page request
  counted, countStart, requests, \* the recount so far
  window,          \* the children of this window: <<kind, index>>
  folderQuery,     \* whether the answer shows a folder query: none or shown
  walked           \* the children of the windows before

childrenVars ==
  <<pages, folders, created, windowSize, includeFolders, windowStart, step, pageStart,
    pageResults, counted, countStart, requests, window, folderQuery, walked>>
given == <<pages, folders, created, windowSize, includeFolders>>

Minus(a, b) == IF a <= b THEN 0 ELSE a - b  \* saturating_sub

\* How many of "total" children an answer holds that begins at s and may hold n.
InAnswer(total, s, n) == Smaller(Minus(total, s), Smaller(n, ServerCap))

Children(kind, s, n) == [i \in 1..n |-> <<kind, s + i>>]

Remaining == windowSize - pageResults

\* The page request is answered; step' tells what is asked for next.
AskPages ==
  /\ step = "pages"
  /\ LET n == InAnswer(pages, windowStart, windowSize)
     IN /\ pageResults' = n
        /\ window' = Children("page", windowStart, n)
        /\ step' = IF ~includeFolders \/ n = windowSize THEN "window"
                   ELSE IF n = 0 /\ windowStart > 0 THEN "recount" ELSE "folders"
  /\ pageStart' = windowStart
  /\ counted' = 0 /\ countStart' = 0 /\ requests' = 0
  /\ folderQuery' = "none"
  /\ UNCHANGED <<given, windowStart, walked>>

RecountAllowed == requests < MaxRecounts

\* One request of count_page_children_before.  A full answer may have a next link
\* even if nothing follows.
Recount ==
  /\ step = "recount"
  /\ counted < windowStart
  /\ RecountAllowed
  /\ LET size == Smaller(RecountLimit, windowStart - counted)
         n == InAnswer(pages, countStart, size)
         isLast == countStart + n >= pages
     IN /\ counted' = counted + n
        /\ requests' = requests + 1
        /\ \E more \in IF isLast THEN {FALSE, n = size} ELSE {TRUE} :
             IF n = 0 \/ ~more
               THEN step' = "folders" /\ UNCHANGED countStart
               ELSE countStart' = countStart + n /\ UNCHANGED step
  /\ UNCHANGED <<given, windowStart, pageStart, pageResults, window, folderQuery, walked>>

\* Enough pages were counted, without an answer that said so.
RecountDone ==
  /\ step = "recount"
  /\ counted >= windowStart
  /\ step' = "folders"
  /\ UNCHANGED <<given, windowStart, pageStart, pageResults, counted, countStart, requests,
                 window, folderQuery, walked>>

\* The recount is not used.
Fault_FolderStart == Minus(windowStart, pageStart + pageResults)

\* How many folders the windows before this one took.
FolderStart ==
  IF pageResults = 0 /\ windowStart > 0
    THEN Minus(windowStart, Smaller(counted, windowStart))
    ELSE Minus(windowStart, pageStart + pageResults)

\* The folders fill up the window.
AskFolders ==
  /\ step = "folders"
  /\ window' = window \o Children("folder", FolderStart, InAnswer(folders, FolderStart, Remaining))
  /\ folderQuery' = "shown"
  /\ step' = "window"
  /\ UNCHANGED <<given, windowStart, pageStart, pageResults, counted, countStart, requests, walked>>

\* A failing folder request is passed over: the answer shows no folder query.
FoldersFail ==
  /\ step = "folders"
  /\ step' = "window"
  /\ UNCHANGED <<given, windowStart, pageStart, pageResults, counted, countStart, requests,
                 window, folderQuery, walked>>

\* The call fails: a page request failed, or the count needs too many requests.
Fail ==
  /\ step \in {"pages", "recount"}
  /\ step' = "stopped"
  /\ UNCHANGED <<given, windowStart, pageStart, pageResults, counted, countStart, requests,
                 window, folderQuery, walked>>

\* The caller reads on, unless it sees that folders are missing or an empty window.
NextWindow ==
  /\ step = "window"
  /\ IF window # <<>> /\ (includeFolders /\ Remaining > 0 => folderQuery = "shown")
       THEN /\ walked' = walked \o window
            /\ windowStart' = windowStart + windowSize
            /\ step' = "pages"
       ELSE step' = "stopped" /\ UNCHANGED <<walked, windowStart>>
  /\ UNCHANGED <<given, pageStart, pageResults, counted, countStart, requests, window, folderQuery>>

\* Someone else creates a page below the parent.
CreatePage ==
  /\ created < MaxCreated
  /\ pages' = pages + 1 /\ created' = created + 1
  /\ UNCHANGED <<folders, windowSize, includeFolders, windowStart, step, pageStart, pageResults,
                 counted, countStart, requests, window, folderQuery, walked>>

ChildrenInit ==
  /\ created = 0
  /\ pages \in 0..MaxChildren /\ folders \in 0..MaxChildren
  /\ windowSize \in WindowSizes
  /\ includeFolders \in BOOLEAN
  /\ windowStart = 0
  /\ step = "pages"
  /\ pageStart = 0 /\ pageResults = 0
  /\ counted = 0 /\ countStart = 0 /\ requests = 0
  /\ window = <<>>
  /\ folderQuery = "none"
  /\ walked = <<>>

ChildrenCall == AskPages \/ Recount \/ RecountDone \/ AskFolders \/ FoldersFail \/ Fail

ChildrenNext == ChildrenCall \/ NextWindow \/ CreatePage

ChildrenSpec == ChildrenInit /\ [][ChildrenNext]_childrenVars

-----------------------------------------------------------------------------
(* Properties. *)

\* The list the windows are taken from: the pages, then the folders if asked for.
Child(i) == IF i <= pages THEN <<"page", i>> ELSE <<"folder", i - pages>>
Total == IF includeFolders THEN pages + folders ELSE pages

Repeats == Len(walked) - Cardinality(Range(walked))

\* Whatever the window size, and wherever the pages end within a window, the windows
\* of a caller put together are the list from its beginning: no child twice, none
\* left out.  pages.rs combines "page and folder children exactly", or fails.  Each page
\* that others create meanwhile, between two requests of a window too, repeats at most
\* one folder; no folder is left out, nor a page that was there.
WindowsJoin ==
  /\ created = 0 =>
       Len(walked) <= Total /\ \A i \in 1..Len(walked) : walked[i] = Child(i)
  /\ \A i \in 1..Len(walked) : walked[i][1] = "folder" =>
       /\ \A p \in 1..(pages - created) : <<"page", p>> \in Range(walked)
       /\ \A k \in 1..(walked[i][2] - 1) : <<"folder", k>> \in Range(walked)
  /\ Repeats <= created

=============================================================================
