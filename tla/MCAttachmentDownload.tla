------------------------ MODULE MCAttachmentDownload ------------------------
(***************************************************************************)
(* Instances of AttachmentDownload: attachments of each kind of title, at  *)
(* list pages of two, from servers whose links go forward and from ones    *)
(* whose links may lead back.                                              *)
(***************************************************************************)
EXTENDS AttachmentDownload

CONSTANTS a1, a2, a3, a4, a5, a6

MCTitleOf ==
  [a \in Attachments |-> IF a \in {a2, a3, a5, a6} THEN "exact"
                        ELSE IF a = a1 THEN "containing" ELSE "other"]

SomeLimits == {1, 3, NoLimit}

\* The first list page holds no match, the second does.
MatchLate == <<a1, a4, a2, a3, a5>>

AllServers == {{"advance", "cursor"}, {"advance", "cursor", "back"}}
PlainServers == {{"advance"}}
=============================================================================
