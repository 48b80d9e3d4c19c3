---------------------------- MODULE MCDevRunners ----------------------------
(* Every command line of the runners; settings of the acceptance runner    *)
(* that differ in where a value comes from and in which are missing.       *)
EXTENDS DevRunners, TLC

MCSmokeCommands == Commands.smoke
MCAcceptanceCommands == Commands.acceptance

Credentials ==
    {<<"JIRA", "URL">>, <<"CONFLUENCE", "URL">>} \cup
        {<<p, n>> : p \in {"JIRA", "CONFLUENCE", "ATLASSIAN"},
                    n \in {"PERSONAL_TOKEN", "USERNAME", "API_TOKEN", "PASSWORD"}}
Objects ==
    {<<"JIRA", n>> : n \in {"READ_ISSUE", "PROJECT_KEY", "FIELD_ID", "FIELD_CONTEXT_ID",
                            "WATCHER_USER", "SERVICE_DESK_ID", "QUEUE_ID"}}
        \cup {<<"CONFLUENCE", n>> :
                n \in {"SEARCH_QUERY", "PAGE_ID", "SPACE_KEY", "TEST_PAGE_PREFIX",
                       "MUTATION_PAGE_ID", "COMMENT_ID", "ATTACHMENT_ID", "ATTACHMENT_FILE"}}
Keys == Credentials \cup Objects
Urls == {<<"JIRA", "URL">>, <<"CONFLUENCE", "URL">>}

\* What the process has: a way to authenticate and the test objects, or less.
Having(keys) == [k \in Keys |-> IF k \in keys THEN "value" ELSE "unset"]
Token == {<<"ATLASSIAN", "PERSONAL_TOKEN">>}
Basic == {<<p, n>> : p \in {"JIRA", "CONFLUENCE"}, n \in {"USERNAME", "API_TOKEN"}}

MCProcesses ==
    {Having(Urls \cup Token \cup Objects),
     Having(Urls \cup Basic \cup (Objects \ {<<"JIRA", "READ_ISSUE">>, <<"CONFLUENCE", "PAGE_ID">>})),
     [Having(Urls \cup Token \cup Objects) EXCEPT ![<<"JIRA", "PROJECT_KEY">>] = "blank",
                                                  ![<<"CONFLUENCE", "PAGE_ID">>] = "empty"],
     Having({<<"JIRA", "URL">>, <<"JIRA", "USERNAME">>, <<"CONFLUENCE", "PASSWORD">>})}

File(kind, asked_for, keys) ==
    [kind |-> kind, asked_for |-> asked_for, lines |-> [k \in keys |-> "value"]]
MCFiles ==
    {File("missing", TRUE, {}), File("missing", FALSE, {}), File("broken", FALSE, {}),
     File("whole", TRUE, Objects), File("whole", FALSE, Urls \cup Basic)}

MCDotenvs == {{}, {"jira_get_issue", "gitlab_create_merge_request"}}
=============================================================================
