CONSTANTS
    SmokeCommands <- MCSmokeCommands
    AcceptanceCommands <- MCAcceptanceCommands
    Processes <- MCProcesses
    Files <- MCFiles
    Dotenvs <- MCDotenvs
    MaxStrays = 1
    MaxTroubles = 1
SPECIFICATION Spec
CHECK_DEADLOCK FALSE
INVARIANTS SmokeTellsTruth AcceptanceTellsTruth NoStrays
PROPERTIES RunnerEnds
