----------------------- MODULE MCGitlabMergeRequests -----------------------
(* Two callers with three calls between them and one push.  The diffs of the first  *)
(* commit hold a character of two bytes across the limit, an empty diff   *)
(* and a file without one.                                                *)
EXTENDS GitlabMergeRequests, TLC

MCLabels == {"bug", "ui"}
MCUsers == {"u"}
MCTexts == {"t"}
MCFilters == {{"path"}}
File(chars) == [diff |-> TRUE, chars |-> chars]
NoDiff == [diff |-> FALSE, chars |-> <<>>]
MCDiffs == << <<File(<<1, 2>>), File(<<>>), NoDiff, File(<<2, 1>>)>>, <<File(<<1, 4, 1>>)>> >>
MCBudgets == {0, 2, 3}
MCSymmetry == Permutations(Callers)
MCCreations == {[text |-> "t", labels |-> {"ui"}, reviewers |-> {}]}
MCUpdates ==
  {[text |-> "", labels |-> {}], [remove_labels |-> {"ui"}, reviewers |-> {}],
   [labels |-> {"ui"}, add_labels |-> {"bug"}],
   [state_event |-> "close"], [state_event |-> "reopen", text |-> "t"]}
=============================================================================
