------------------------- MODULE MCConfluencePages --------------------------
(***************************************************************************)
(* Instances of ConfluencePages for TLC: tasks that touch the text, the    *)
(* space and the parent of the page, with and without optional arguments.  *)
(***************************************************************************)
EXTENDS ConfluencePages

CONSTANTS s1, s2, p1, p2

MCSpaceOf == [p \in Parents |-> IF p = p1 THEN s1 ELSE s2]

T(kind, position, space, parent, emoji, blank) ==
  [kind |-> kind, position |-> position, space |-> space, parent |-> parent,
   emoji |-> emoji, blank |-> blank]

Update == T("update", "append", NoArg, NoArg, TRUE, FALSE)
UpdateUnder == T("update", "append", NoArg, p2, FALSE, FALSE)
BlankUpdate == T("update", "append", NoArg, NoArg, FALSE, TRUE)
MoveToSpace == T("move", "append", s2, NoArg, FALSE, FALSE)
MoveUnder == T("move", "append", NoArg, p2, FALSE, FALSE)
MoveAbove == T("move", "above", NoArg, p2, FALSE, FALSE)
MoveAboveNothing == T("move", "above", s2, NoArg, FALSE, FALSE)
MoveBefore == T("move", "before", NoArg, p1, FALSE, FALSE)
Create == T("create", "append", s1, NoArg, TRUE, FALSE)
Delete == T("delete", "append", NoArg, NoArg, FALSE, FALSE)

AllTasks == {Update, UpdateUnder, BlankUpdate, MoveToSpace, MoveUnder, MoveAbove,
             MoveAboveNothing, MoveBefore, Create, Delete}
=============================================================================
