---------------------------- MODULE MCToolAccess ----------------------------
(* Instances of ToolAccess: two services, of which jira has the shared     *)
(* credentials, three tools in two toolsets, three profiles.               *)
EXTENDS ToolAccess, TLC

CONSTANTS read_issue, write_issue, read_project, reads, writes

MCURL == [jira |-> "JIRA_URL", gitlab |-> "GITLAB_URL"]
MCCredential == [jira |-> "JIRA_API_TOKEN", gitlab |-> "GITLAB_TOKEN"]

MCToolService ==
    [t \in {read_issue, write_issue, read_project} |->
        IF t = read_project THEN "gitlab" ELSE "jira"]
MCToolToolset ==
    [t \in {read_issue, write_issue, read_project} |->
        IF t = write_issue THEN writes ELSE reads]
MCProfiles == [basic |-> {reads}, full |-> {reads, writes}, custom |-> {}]

Env(values) == [v \in Variables |-> IF v \in DOMAIN values THEN values[v] ELSE Unset]
Missing == [kind |-> "missing", head |-> <<>>, tail |-> <<>>]
File(kind, head, tail) == [kind |-> kind, head |-> head, tail |-> tail]
Both(f, g) == [v \in DOMAIN f \cup DOMAIN g |-> IF v \in DOMAIN f THEN f[v] ELSE g[v]]

\* Every combination of the MCP variables, with both services or with jira alone.
McpEnvs ==
    {Env(Both([MCP_TOOL_PROFILE |-> p, MCP_TOOLSETS |-> k, MCP_ENABLED_TOOLS |-> e,
               MCP_DISABLED_TOOLS |-> d], s)) :
       p \in {Unset, "full", "custom", Unknown},
       k \in {Blank, <<writes>>, <<"all">>, <<writes, Unknown>>, <<"all", Unknown>>},
       e \in {Unset, {write_issue}, {read_project, Unknown}},
       d \in {Unset, Blank, {read_issue}, {write_issue}},
       s \in {MCURL["jira"] :> "good" @@ MCURL["gitlab"] :> "good" @@
                  MCCredential["jira"] :> "token" @@ MCCredential["gitlab"] :> "token",
              MCURL["jira"] :> "good" @@ "ATLASSIAN_CREDENTIAL" :> "token"}}

McpDisks ==
    {[p \in Paths |-> IF p = ".env"
        THEN File("whole", [MCP_DISABLED_TOOLS |-> {}], [MCP_TOOL_PROFILE |-> "full"])
        ELSE Missing]}

\* Every combination of the service variables, and of what names a dotenv file.
ServiceEnvs ==
    {Env(MCURL["jira"] :> ju @@ MCURL["gitlab"] :> gu @@ MCCredential["jira"] :> jc @@
         MCCredential["gitlab"] :> gc @@ "ATLASSIAN_CREDENTIAL" :> a @@ "ENV_FILE" :> f @@
         "MCP_HTTP_PORT" :> o) :
       ju \in {Unset, Blank, "good", "bad"}, gu \in {Unset, "good"},
       jc \in {Unset, "token"}, gc \in {Unset, "token"}, a \in {Unset, "token"},
       f \in {Unset, Blank, "named"}, o \in {Unset, "bad"}}

ServiceDisks ==
    {[p \in Paths |-> IF p = ".env" THEN d ELSE IF p = "named" THEN n ELSE g] :
       d \in {Missing, File("broken", MCURL["jira"] :> "good", MCCredential["jira"] :> "token")},
       n \in {Missing, File("whole", MCURL["jira"] :> "good", MCCredential["jira"] :> "token")},
       g \in {File("whole", MCURL["gitlab"] :> "good", MCCredential["gitlab"] :> "token"),
              File("broken", MCURL["gitlab"] :> "good", MCCredential["gitlab"] :> "token")}}

AllEnvs == McpEnvs \cup ServiceEnvs
AllDisks == McpDisks \cup ServiceDisks
=============================================================================
