CONSTANTS
    read_issue = read_issue
    write_issue = write_issue
    read_project = read_project
    reads = reads
    writes = writes
    Unknown = Unknown
    Unset = Unset
    Blank = Blank
    Tools = {read_issue, write_issue, read_project}
    Services = {"jira", "gitlab"}
    Toolsets = {reads, writes}
    Atlassian = {"jira"}
    DefaultProfile = "basic"
    DefaultPath = ".env"
    Paths = {".env", "named", "given"}
    URL <- MCURL
    Credential <- MCCredential
    ToolService <- MCToolService
    ToolToolset <- MCToolToolset
    ProfileToolsets <- MCProfiles
    ProcessEnvs <- AllEnvs
    Disks <- AllDisks
SPECIFICATION AccessSpec
CHECK_DEADLOCK FALSE
INVARIANTS ListedIffCallable CliIgnoresMcp NoCredentialIgnored OneSource
