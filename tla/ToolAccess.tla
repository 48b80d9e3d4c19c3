----------------------------- MODULE ToolAccess -----------------------------
(***************************************************************************)
(* Startup of the program and the access control over its operations.     *)
(*                                                                         *)
(* One process starts in one of three modes (src/main.rs): the MCP server  *)
(* over stdio or over HTTP, or one command of the resource CLI.  It merges *)
(* a dotenv file into its environment, parses the environment once into a  *)
(* context that never changes, and then answers.  Over MCP any number of   *)
(* clients list tools and call them, in any order: the list and the call   *)
(* go through two different checks of the same context, and the operation  *)
(* behind the call makes a third.  A CLI command goes through the third    *)
(* only.                                                                   *)
(*                                                                         *)
(* A variable of the environment is unset, blank (set to white space, as   *)
(* docker-compose.yml does with every variable it is not given), or holds  *)
(* a value: a profile, a sequence of toolset tokens, a set of tool names,  *)
(* a URL that parses or does not, a credential.                            *)
(***************************************************************************)
EXTENDS Sequences, Functions

CONSTANTS
    Tools,          \* the registered tools
    Services,       \* Jira, Confluence, GitLab
    Toolsets,       \* the registered toolsets
    ToolService,    \* [Tools -> Services]
    ToolToolset,    \* [Tools -> Toolsets]
    ProfileToolsets,\* the toolsets of each profile, a function on the profiles
    DefaultProfile, \* the profile in force when none is named
    URL,            \* the variable that holds the URL of each service
    Credential,     \* the variable that holds its own credential
    Atlassian,      \* the services that fall back to the ATLASSIAN_ credentials
    Unknown,        \* a name that nothing is registered under
    Unset, Blank,   \* what a variable without a value is
    ProcessEnvs,    \* the environments the process may be started in
    Disks,          \* the dotenv files there may be, each a function on Paths
    Paths,          \* the paths of dotenv files
    DefaultPath     \* .env

Variables == {"ENV_FILE", "MCP_TOOL_PROFILE", "MCP_TOOLSETS", "MCP_ENABLED_TOOLS",
              "MCP_DISABLED_TOOLS", "MCP_HTTP_PORT", "ATLASSIAN_CREDENTIAL"}
                 \cup Range(URL) \cup Range(Credential)

ASSUME RegistryAssumption ==
    /\ ToolService \in [Tools -> Services]
    /\ DOMAIN URL = Services /\ DOMAIN Credential = Services
    /\ ToolToolset \in [Tools -> Toolsets]
    /\ DefaultProfile \in DOMAIN ProfileToolsets
    /\ \A p \in DOMAIN ProfileToolsets : ProfileToolsets[p] \subseteq Toolsets
    /\ Unknown \notin Tools \cup Toolsets \cup DOMAIN ProfileToolsets
    /\ "all" \notin Toolsets
    /\ Atlassian \subseteq Services
    /\ DefaultPath \in Paths /\ Blank \notin Paths /\ Unset \notin Paths

ASSUME InputsAssumption ==
    /\ \A e \in ProcessEnvs : DOMAIN e = Variables
    /\ \A d \in Disks : DOMAIN d = Paths

VARIABLES
    mode,       \* "stdio", "streamhttp" or "cli"
    arguments,  \* --env-file and --port, each Unset or a value
    disk,       \* the dotenv file at each path
    process,    \* the environment the process was started in
    env,        \* its environment now
    phase,      \* "dotenv", "config", "serving", "command", "done" or "failed"
    context,    \* the parsed configuration, NoContext before
    listed,     \* the tools of the last tools/list answer, NoListing before
    answers     \* how the last use of each name ended, "none" before

accessVars == <<mode, arguments, disk, process, env, phase, context, listed, answers>>

NoContext == [enabled |-> {}, disabled |-> {}, toolsets |-> {},
              configured |-> {}, available |-> {}]
NoListing == {Unknown}
Names == Tools \cup {Unknown}
Server == mode \in {"stdio", "streamhttp"}

-----------------------------------------------------------------------------
(* Dotenv files.  A file is missing, whole, or broken: one of its lines    *)
(* does not parse.  Loading sets the variables that the process does not   *)
(* have, line by line, and stops at the first line that does not parse.    *)

LoadsDotenv == mode \in {"streamhttp", "cli"}

\* Fault: ENV_FILE is looked at before the argument.
Fault_Selected ==
    IF env["ENV_FILE"] # Unset THEN env["ENV_FILE"]
    ELSE IF arguments.env_file # Unset THEN arguments.env_file
    ELSE DefaultPath

\* Which file: --env-file, then ENV_FILE (as it is, blank or not), then .env.
Selected ==
    IF arguments.env_file # Unset THEN arguments.env_file
    ELSE IF env["ENV_FILE"] # Unset THEN env["ENV_FILE"]
    ELSE DefaultPath

IsDefault == arguments.env_file = Unset /\ env["ENV_FILE"] = Unset

FileAt(path) ==
    IF path \in Paths THEN disk[path]
    ELSE [kind |-> "missing", head |-> <<>>, tail |-> <<>>]

\* Variables already set, blank or not, keep their value.
Merge(e, lines) ==
    [v \in Variables |-> IF e[v] = Unset /\ v \in DOMAIN lines THEN lines[v] ELSE e[v]]

Loaded(e, file) ==
    CASE file.kind = "missing" -> e
      [] file.kind = "broken"  -> Merge(e, file.head)
      [] OTHER                 -> Merge(Merge(e, file.head), file.tail)

\* stdio reads no file; a file that was asked for must load; the default
\* file may be missing, and whatever goes wrong with it is ignored.
LoadDotenv ==
    /\ phase = "dotenv"
    /\ env' = IF LoadsDotenv THEN Loaded(env, FileAt(Selected)) ELSE env
    /\ phase' = IF LoadsDotenv /\ ~IsDefault /\ FileAt(Selected).kind # "whole"
                  THEN "failed" ELSE "config"
    /\ UNCHANGED <<mode, arguments, disk, process, context, listed, answers>>

-----------------------------------------------------------------------------
(* The configuration.                                                      *)

Present(v) == env[v] \notin {Unset, Blank}

ProfileNamed == IF Present("MCP_TOOL_PROFILE") THEN env["MCP_TOOL_PROFILE"]
                ELSE DefaultProfile
ProfileValid == ProfileNamed \in DOMAIN ProfileToolsets

ToolNames(v) == IF Present(v) THEN env[v] ELSE {}
Tokens == IF Present("MCP_TOOLSETS") THEN env["MCP_TOOLSETS"] ELSE <<>>

\* "all" ends the reading: the tokens after it are not looked at.
AllReached ==
    \E i \in DOMAIN Tokens :
        Tokens[i] = "all" /\ \A j \in 1..(i - 1) : Tokens[j] \in Toolsets
ToolsetsValid == AllReached \/ Range(Tokens) \subseteq Toolsets
EnabledToolsets ==
    IF AllReached THEN Toolsets ELSE ProfileToolsets[ProfileNamed] \cup Range(Tokens)

HasCredential(s) ==
    Present(Credential[s]) \/ (s \in Atlassian /\ Present("ATLASSIAN_CREDENTIAL"))

\* Fault: a service without a URL is off, whatever credentials it was given.
Fault_ServiceValid(s) ==
    Present(URL[s]) => env[URL[s]] = "good" /\ HasCredential(s)

\* Without a URL a service is off, unless it was given a credential of its own;
\* with one it needs a URL that parses and a credential.
ServiceValid(s) ==
    IF Present(URL[s]) THEN env[URL[s]] = "good" /\ HasCredential(s)
    ELSE ~Present(Credential[s])
ConfiguredServices == {s \in Services : Present(URL[s])}
AvailableServices == {s \in ConfiguredServices : HasCredential(s)}

McpValid == ProfileValid /\ ToolsetsValid
PortValid == \/ mode # "streamhttp"
             \/ arguments.port # Unset
             \/ ~Present("MCP_HTTP_PORT")
             \/ env["MCP_HTTP_PORT"] = "good"

ServerContext ==
    [enabled |-> ToolNames("MCP_ENABLED_TOOLS"), disabled |-> ToolNames("MCP_DISABLED_TOOLS"),
     toolsets |-> EnabledToolsets, configured |-> ConfiguredServices, available |-> AvailableServices]
CliContext ==
    [enabled |-> {}, disabled |-> {}, toolsets |-> ProfileToolsets[DefaultProfile],
     configured |-> ConfiguredServices, available |-> AvailableServices]

ConfigureServer ==
    /\ phase = "config" /\ Server
    /\ IF McpValid /\ PortValid /\ \A s \in Services : ServiceValid(s)
         THEN phase' = "serving" /\ context' = ServerContext
         ELSE phase' = "failed" /\ UNCHANGED context
    /\ UNCHANGED <<mode, arguments, disk, process, env, listed, answers>>

\* Fault: the CLI is configured the way the server is.
Fault_ConfigureCli ==
    /\ phase = "config" /\ mode = "cli"
    /\ IF McpValid /\ \A s \in Services : ServiceValid(s)
         THEN phase' = "command" /\ context' = ServerContext
         ELSE phase' = "failed" /\ UNCHANGED context
    /\ UNCHANGED <<mode, arguments, disk, process, env, listed, answers>>

\* The CLI reads none of the MCP variables.
ConfigureCli ==
    /\ phase = "config" /\ mode = "cli"
    /\ IF \A s \in Services : ServiceValid(s)
         THEN phase' = "command" /\ context' = CliContext
         ELSE phase' = "failed" /\ UNCHANGED context
    /\ UNCHANGED <<mode, arguments, disk, process, env, listed, answers>>

-----------------------------------------------------------------------------
(* Access.                                                                 *)

ToolEnabled(t) ==
    /\ t \notin context.disabled
    /\ t \in context.enabled \/ ToolToolset[t] \in context.toolsets
ServiceAvailable(t) == ToolService[t] \in context.available

Discoverable(t) == ToolEnabled(t) /\ ServiceAvailable(t)
\* Fault: the call looks at the toolsets and misses the exact inclusions.
Fault_ToolGuard(n) ==
    /\ n \in Tools /\ ServiceAvailable(n)
    /\ n \notin context.disabled /\ ToolToolset[n] \in context.toolsets

ToolGuard(n) == n \in Tools /\ ToolEnabled(n) /\ ServiceAvailable(n)
OperationGuard(n) == n \in Tools /\ ServiceAvailable(n)
ClientFor(t) == ToolService[t] \in context.configured

\* What the shared operation layer makes of tool t.
Operation(t) ==
    CASE ~OperationGuard(t) -> "unavailable"
      [] OperationGuard(t) /\ ~ClientFor(t) -> "not_configured"
      [] OTHER -> "ran"

ListTools ==
    /\ phase = "serving"
    /\ listed' = {t \in Tools : Discoverable(t)}
    /\ UNCHANGED <<mode, arguments, disk, process, env, phase, context, answers>>

CallTool(n) ==
    /\ phase = "serving"
    /\ answers' = [answers EXCEPT ![n] = IF ToolGuard(n) THEN Operation(n) ELSE "refused"]
    /\ UNCHANGED <<mode, arguments, disk, process, env, phase, context, listed>>

\* A command runs one operation and the process exits.
RunCommand(t) ==
    /\ phase = "command"
    /\ answers' = [answers EXCEPT ![t] = Operation(t)]
    /\ phase' = "done"
    /\ UNCHANGED <<mode, arguments, disk, process, env, context, listed>>

AccessInit ==
    /\ mode \in {"stdio", "streamhttp", "cli"}
    /\ arguments \in [env_file : IF LoadsDotenv THEN {Unset} \cup Paths ELSE {Unset},
                      port : IF mode = "streamhttp" THEN {Unset, "good"} ELSE {Unset}]
    /\ disk \in Disks
    /\ process \in ProcessEnvs
    /\ env = process
    /\ phase = "dotenv"
    /\ context = NoContext
    /\ listed = NoListing
    /\ answers = [n \in Names |-> "none"]

AccessNext ==
    \/ LoadDotenv
    \/ ConfigureServer
    \/ ConfigureCli
    \/ ListTools
    \/ \E n \in Names : CallTool(n)
    \/ \E t \in Tools : RunCommand(t)

AccessSpec == AccessInit /\ [][AccessNext]_accessVars

-----------------------------------------------------------------------------
(* What must hold.                                                         *)

InService == phase \in {"serving", "command", "done"}
Given(v) == process[v] \notin {Unset, Blank}

\* The file that was asked for: by --env-file, or else by ENV_FILE.
AskedFor ==
    IF arguments.env_file # Unset THEN {arguments.env_file}
    ELSE {process["ENV_FILE"]} \ {Unset}

\* A tool runs for an MCP client exactly if tools/list names it: visible_tools,
\* guard_tool_call, guard_operation and the client constructors, four checks in
\* three files, draw the same line whatever the configuration is.
ListedIffCallable ==
    listed # NoListing =>
        \A n \in Names : answers[n] # "none" => (n \in listed <=> answers[n] = "ran")

\* A tool that the environment of the process disables never runs over MCP: no
\* profile, toolset or exact inclusion brings it back, and no dotenv file either.
DisabledNeverRuns ==
    Server /\ Given("MCP_DISABLED_TOOLS") =>
        \A t \in process["MCP_DISABLED_TOOLS"] \cap Tools : answers[t] # "ran"

\* The CLI ignores the MCP variables: they cannot stop it from starting, and its
\* command is turned down only for want of a URL for its service.
CliIgnoresMcp ==
    mode = "cli" =>
        /\ phase = "failed" =>
              \/ \E f \in AskedFor : FileAt(f).kind # "whole"
              \/ \E s \in Services : ~ServiceValid(s)
        /\ \A t \in Tools : answers[t] # "none" =>
              answers[t] = IF Present(URL[ToolService[t]]) THEN "ran" ELSE "unavailable"

\* No credential is dropped in silence: a process in service has configured every
\* service it was given a credential for, or else its startup failed.
NoCredentialIgnored ==
    InService => \A s \in Services : Given(Credential[s]) => s \in context.available

\* The file that was asked for, or else .env.
SourceFile == FileAt(IF AskedFor = {} THEN DefaultPath ELSE CHOOSE f \in AskedFor : TRUE)

\* Each variable the process did not have is unset or from that file.
FromOneFile ==
    \A v \in Variables :
        IF process[v] # Unset THEN env[v] = process[v]
        ELSE \/ env[v] = Unset
             \/ v \in DOMAIN SourceFile.head /\ env[v] = SourceFile.head[v]
             \/ v \in DOMAIN SourceFile.tail /\ env[v] = SourceFile.tail[v]

\* Every variable in force is the process's own or comes from one file: none under
\* stdio, the one asked for, whole, if one was, and .env otherwise.
OneSource ==
    /\ mode = "stdio" => env = process
    /\ InService /\ mode # "stdio" => \A f \in AskedFor : FileAt(f).kind = "whole"
    /\ InService /\ env # process => FromOneFile

(* The inductive invariant, for the proofs in SurfacesProofs.              *)

\* The environment only ever gains variables that the process did not have.
ProcessWins ==
    /\ \A v \in Variables : process[v] # Unset => env[v] = process[v]
    /\ "MCP_DISABLED_TOOLS" \in Variables

\* Lists and answers are those of the context, and belong to the way in.
AnswersFollowContext ==
    /\ DOMAIN answers = Names
    /\ mode \in {"stdio", "streamhttp", "cli"}
    /\ phase \in {"dotenv", "config", "failed"} =>
          listed = NoListing /\ \A n \in Names : answers[n] = "none"
    /\ phase = "serving" =>
          /\ Server
          /\ context.disabled = ToolNames("MCP_DISABLED_TOOLS")
          /\ listed # NoListing => listed = {t \in Tools : Discoverable(t)}
          /\ \A n \in Names : answers[n] # "none" =>
                answers[n] = IF ToolGuard(n) THEN Operation(n) ELSE "refused"
    /\ phase \in {"command", "done"} => mode = "cli" /\ listed = NoListing
    /\ phase \in {"dotenv", "config", "failed", "serving", "command", "done"}

AccessInv ==
    /\ ProcessWins
    /\ AnswersFollowContext
    /\ context.available \subseteq context.configured

(* How the environment in force came about.                                *)

\* The process starts with its own environment; a file that was asked for is whole
\* once the configuration begins, and nothing comes from anywhere else.
Origin ==
    /\ phase = "dotenv" => env = process /\ DOMAIN env = Variables
    /\ phase = "config" /\ mode # "stdio" => \A f \in AskedFor : FileAt(f).kind = "whole"
    /\ phase = "config" /\ env # process => FromOneFile

\* What a configuration that was accepted says of the services.
ServicesInContext ==
    InService =>
        /\ context.configured = ConfiguredServices
        /\ context.available = ConfiguredServices
        /\ \A s \in Services : ServiceValid(s)

\* A command of the CLI fails for its file or its services, and is answered once.
CliAnswers ==
    mode = "cli" =>
        /\ phase = "failed" =>
              \/ \E f \in AskedFor : FileAt(f).kind # "whole"
              \/ \E s \in Services : ~ServiceValid(s)
        /\ \A t \in Tools : answers[t] # "none" => InService /\ answers[t] = Operation(t)

StartInv ==
    /\ Origin
    /\ ServicesInContext
    /\ CliAnswers
    /\ OneSource

=============================================================================
