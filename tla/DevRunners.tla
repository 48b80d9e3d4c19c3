----------------------------- MODULE DevRunners -----------------------------
(***************************************************************************)
(* The development runners (xtask/src/main.rs): one command line runs the  *)
(* smoke runner or the acceptance runner, and its exit code is the exit    *)
(* code of the process.  Both start the program as a child and must have   *)
(* ended it, and whatever else they started, when they exit.               *)
(***************************************************************************)
EXTENDS Sequences, Integers, FiniteSets

CONSTANTS SmokeCommands, AcceptanceCommands, Processes, Files, Dotenvs,
    MaxStrays, MaxTroubles

\* The command lines that the runners accept.
Commands == [
    smoke |->
        {[target |-> "bare"]}
            \cup [target : {"mcp"}, service : {"jira", "confluence", "gitlab"},
                  mode : {"all", "stdio", "http", "restricted"}]
            \cup [target : {"cli"}, service : {"all", "jira", "confluence", "gitlab"}],
    acceptance |-> [mode : {"jira", "confluence", "mcp"}, action : {"preflight", "run"}]]

ASSUME CommandsAssumption ==
    /\ SmokeCommands \subseteq Commands.smoke
    /\ AcceptanceCommands \subseteq Commands.acceptance

VARIABLES command, pc, children, exit, hung, dotenv, outside
VARIABLES at, verdict, mocks, record, deviations                  \* smoke
VARIABLES process, file, env, row, printed, truth                 \* acceptance

smokeVars == <<at, verdict, mocks, record, deviations>>
acceptanceVars == <<process, file, env, row, printed, truth>>
vars == <<command, pc, children, exit, hung, dotenv, outside, smokeVars, acceptanceVars>>

Smoke == INSTANCE SmokeRunner
Acceptance == INSTANCE AcceptanceRunner

IsSmoke == command \in SmokeCommands

\* The runner that is not dispatched to keeps one state.
NoAcceptance ==
    /\ process = "none" /\ file = "none" /\ env = "none" /\ row = 0
    /\ printed = <<>> /\ truth = <<>>

Init ==
    \/ Smoke!Init /\ NoAcceptance
    \/ Acceptance!Init /\ Smoke!OwnInit

RunSmoke == IsSmoke /\ Smoke!Runner /\ UNCHANGED acceptanceVars
SmokeChildStrays == IsSmoke /\ Smoke!Stray /\ UNCHANGED acceptanceVars
RunAcceptance == ~IsSmoke /\ Acceptance!Next /\ UNCHANGED smokeVars

Next == RunSmoke \/ SmokeChildStrays \/ RunAcceptance

\* The runner's steps, and the waits they make, do not stop by themselves.
Spec ==
    /\ Init /\ [][Next]_vars
    /\ WF_vars(RunSmoke) /\ WF_vars(RunAcceptance)

-----------------------------------------------------------------------------
(* What must hold.                                                         *)

Done(code) == pc = "done" /\ exit = code

\* A deviation of the child that the smoke sets out to find: a write of a server
\* before the record of its session is looked at, a command of the CLI that does
\* not ask the service it says it asked, anything that is not as expected.
SetsOutToFind(d) ==
    CASE d.step[2] = "stray" ->
            /\ \E i \in DOMAIN Smoke!Sessions[d.session].phases :
                    Smoke!Sessions[d.session].phases[i] = "restricted"
            /\ d.step[1] # "close" \/ d.kind # "restricted"
      [] d.step[2] = "unasked" -> d.kind = "controls"
      [] OTHER -> TRUE

\* The smoke's exit code tells the truth: 0 only if the program did nothing that
\* the smoke sets out to find, and 1 only for a reason.  A port that another
\* server holds is left out: the smoke then talks to that server.
SmokeTellsTruth ==
    IsSmoke =>
        /\ Done(0) /\ "port" \notin outside => ~\E d \in deviations : SetsOutToFind(d)
        /\ Done(1) => deviations # {} \/ outside # {} \/ dotenv # {}

\* How a row that is printed as ok was dealt with: a guarded tool was refused, and any
\* other was answered without an error.  That says less than that all went well: some
\* tools swallow a failure of the service, and a message may hold nothing at all.
Passable(r) ==
    IF r.restricted THEN {"refused"}
    ELSE {"served"}
            \cup (IF r.tool \in Acceptance!Swallowing THEN {"swallowed"} ELSE {})
            \cup (IF r.transport # "list" THEN {"hollow"} ELSE {})

\* A row's line is its own, whatever happened to the rows before it.
LineTrue(i) ==
    LET r == Acceptance!Rows[i] IN
    /\ printed[i] = "ok" <=> truth[i] \in Passable(r)
    /\ printed[i] = "blocked" <=> truth[i] \in {"none", "product"}
    /\ truth[i] = "none" <=> \E key \in r.required : ~Acceptance!Given(key)

Printed(status) == \E i \in DOMAIN printed : printed[i] = status

\* The acceptance prints a line for every row, and each tells how the row was dealt with:
\* left out exactly when a setting it needs is missing, blocked for want of that or of a
\* product, ok as far as an answer without an error goes, and failed otherwise (run_rows,
\* classify_response).  The exit code is that of the worst line, with blocked worse than
\* failed: 2 may hide a failed row, so the lines have to be right.
AcceptanceTellsTruth ==
    ~IsSmoke /\ pc = "done" /\ printed # <<>> =>
        /\ Len(printed) = Len(Acceptance!Rows)
        /\ \A i \in DOMAIN printed : LineTrue(i)
        /\ exit = IF Printed("blocked") THEN 2 ELSE IF Printed("failed") THEN 1 ELSE 0

\* One child at a time, and none left, no mock either, when the runner exits.
NoStrays ==
    /\ Cardinality(children) <= 1
    /\ pc = "done" => children = {} /\ mocks = {}

\* The runner ends, whatever the child does, unless it waits for an answer over
\* HTTP or for a command of the CLI: there alone it waits without a deadline.
Waits ==
    IF IsSmoke THEN Smoke!OverHttp \/ Smoke!OfCli ELSE Acceptance!OverHttp
RunnerEnds == <>(pc = "done" \/ (hung /\ Waits))
=============================================================================
