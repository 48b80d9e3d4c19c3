----------------------------- MODULE AtomicPage -----------------------------
(***************************************************************************)
(* What the Confluence page writes promise to their callers: one page, and *)
(* calls that each change it at most once, in one atomic step that reads   *)
(* and writes the page together.  A call that returned "ok" has taken      *)
(* effect, a call that returned "rejected" never does, and a call that     *)
(* returned "unknown" (timeout, gateway error, unreadable answer) may take *)
(* effect before or after it returned, or never.                           *)
(***************************************************************************)
EXTENDS Naturals

CONSTANTS
  Calls,   \* the calls made during a behaviour; also the text a call writes
  Tasks,   \* what a call may be asked to do (records, see ConfluencePages)
  NoTask,  \* the task of a call that was not made yet
  NoArg,   \* an optional argument that was not given
  SpaceOf, \* the space in which each possible parent page lives
  BesideBumpsVersion  \* whether a move above/below makes a new version

VARIABLES
  page,    \* [live, version, text, space, parent]
  task,    \* what each call was asked to do
  applied, \* how often each call changed the content
  marked,  \* the calls whose emoji was set
  result   \* "pending", "ok", "rejected" or "unknown"

vars == <<page, task, applied, marked, result>>

Given(arg, default) == IF arg = NoArg THEN default ELSE arg

Beside(t) == t.kind = "move" /\ t.position \in {"above", "below"}

\* The page after call c did t to p; creating another page leaves p alone.
Effect(c, t, p) ==
  CASE t.kind = "create" -> p
    [] t.kind = "delete" -> [p EXCEPT !.live = FALSE]
    [] t.kind = "update" -> [p EXCEPT !.version = @ + 1,
                                      !.text = c,
                                      !.parent = Given(t.parent, @)]
    [] Beside(t)         -> [p EXCEPT !.version = IF BesideBumpsVersion THEN @ + 1 ELSE @,
                                      !.space = SpaceOf[t.parent],
                                      !.parent = t.parent]
    [] OTHER             -> [p EXCEPT !.version = @ + 1,
                                      !.space = Given(t.space, @),
                                      !.parent = Given(t.parent, @)]

Init ==
  /\ page.live
  /\ task = [c \in Calls |-> NoTask]
  /\ applied = [c \in Calls |-> 0]
  /\ marked = {}
  /\ result = [c \in Calls |-> "pending"]

Begin(c, t) ==
  /\ task[c] = NoTask
  /\ task' = [task EXCEPT ![c] = t]
  /\ UNCHANGED <<page, applied, marked, result>>

\* Also after the caller was told "unknown": the request was still under way.
TakeEffect(c) ==
  /\ task[c] # NoTask
  /\ applied[c] = 0
  /\ result[c] \in {"pending", "unknown"}
  /\ page.live \/ task[c].kind = "create"
  /\ applied' = [applied EXCEPT ![c] = 1]
  /\ page' = Effect(c, task[c], page)
  /\ UNCHANGED <<task, marked, result>>

Mark(c) ==
  /\ applied[c] = 1
  /\ task[c].emoji
  /\ c \notin marked
  /\ marked' = marked \cup {c}
  /\ UNCHANGED <<page, task, applied, result>>

Return(c, r) ==
  /\ task[c] # NoTask
  /\ result[c] = "pending"
  /\ r = "ok" => applied[c] = 1
  /\ r = "rejected" => applied[c] = 0
  /\ result' = [result EXCEPT ![c] = r]
  /\ UNCHANGED <<page, task, applied, marked>>

Next ==
  \E c \in Calls :
    \/ \E t \in Tasks : Begin(c, t)
    \/ TakeEffect(c)
    \/ Mark(c)
    \/ \E r \in {"ok", "rejected", "unknown"} : Return(c, r)

Spec == Init /\ [][Next]_vars
=============================================================================
